---- MODULE Spec2Model ----
(***************************************************************************)
(* Model of the plan-driven Notes -> SQL extractor                         *)
(* (src/extract-users-db_prod.py): the SQL sink primitives, the document   *)
(* upserter and the checkpointed view pass.                                *)
(*                                                                         *)
(* SQL NULL is written Null (integer columns), NullS (string columns) and  *)
(* NullDT (datetime columns). A table is a set of rows; a unique key is    *)
(* enforced by the operator that models the INSERT.                        *)
(***************************************************************************)
EXTENDS Integers, Sequences, FiniteSets, TLC

Null   == 0 - 1
NullS  == "<NULL>"
NullDT == <<>>

(* ------------------------------------------------------------------ *)
(* Bounds of the model                                                *)
(* ------------------------------------------------------------------ *)
\* batch_size of process_view_into_db, scaled down from 50
BatchSize == 2
\* number of passes (process runs) over the view in one behaviour
MaxRuns == 3
\* number of single-writer upserts in one behaviour of SpecUpsert
MaxUpserts == 3
\* writers on separate connections
NumWriters == 2
\* concurrent callers of cas_store, and chunks shutil.copy2 writes per file
NumCallers == 2
CopyChunks == 2
\* enabled ingestion plans of one run of main
NumPlans == 3

(* ------------------------------------------------------------------ *)
(* Helpers on sequences                                               *)
(* ------------------------------------------------------------------ *)
Range(s) == {s[i] : i \in 1..Len(s)}

Min(a, b) == IF a < b THEN a ELSE b

\* SQL LOWER() / the utf8mb4_unicode_ci comparison, on the model's alphabet
Lower(s) ==
  CASE s = "Subject" -> "subject"
    [] s = "From"    -> "from"
    [] s = "Form"    -> "form"
    [] s = "When"    -> "when"
    [] s = "Tag"     -> "tag"
    [] s = "A"       -> "a"
    [] OTHER         -> s

\* the <=> operator on a string column with a case-insensitive collation
StrNullSafeEq(col, p) == Lower(col) = Lower(p)

(* ------------------------------------------------------------------ *)
(* Values of Notes items, as the COM bridge hands them to Python      *)
(* ------------------------------------------------------------------ *)
\* tzinfo is None
NoTz == 100 - 1

VBool(b)          == [t |-> "bool", b |-> b]
VNum(n)           == [t |-> "num", n |-> n]
VDate(sec, fr, z) == [t |-> "dt", sec |-> sec, frac |-> fr, tz |-> z]
VStr(s)           == [t |-> "str", s |-> s, long |-> FALSE, iso |-> NullDT]
VLong(s)          == [t |-> "str", s |-> s, long |-> TRUE, iso |-> NullDT]
VIso(s, sec, fr)  == [t |-> "str", s |-> s, long |-> FALSE, iso |-> <<sec, fr>>]
VNone             == [t |-> "none"]

\* as_dt: a datetime (native, or a string datetime.fromisoformat accepts) as a
\* naive UTC datetime <<seconds, fraction>>; anything else is None
as_dt(v) ==
  IF v.t = "dt"
    THEN IF v.tz = NoTz THEN <<v.sec, v.frac>> ELSE <<v.sec - v.tz, v.frac>>
    ELSE IF v.t = "str" THEN v.iso ELSE NullDT

\* s[:1024] of a string longer than 1024 characters
Prefix1024(s) == "pre(" \o s \o ")"

(* ------------------------------------------------------------------ *)
(* SQL sink. A statement takes and returns the state of the           *)
(* connection st = [db, committed, ai, cas, stats, err]: db is the    *)
(* tables as the connection sees them, committed the tables as of the *)
(* last commit, ai the AUTO_INCREMENT counters, cas the blob store,   *)
(* stats the counters of the pass, and err is TRUE once a statement   *)
(* has raised (the exception propagates: every later statement of the *)
(* same call is skipped).                                             *)
(* ------------------------------------------------------------------ *)
EmptyDb ==
  [items |-> {}, item_values |-> {}, doc_item_values |-> {}, documents |-> {},
   attachments |-> {}, document_views |-> {}, etl_checkpoints |-> {}]

ZeroAi == [items |-> 0, item_values |-> 0, attachments |-> 0, document_views |-> 0]

ItemKnown(db, name) == \E r \in db.items : r.name_lc = Lower(name)

ItemRow(db, name) == CHOOSE r \in db.items : r.name_lc = Lower(name)

\* get_item_id: SELECT id by name_lc, else INSERT (notes_filter defaults to NULL)
get_item_id(st, name) ==
  IF ItemKnown(st.db, name)
    THEN [st |-> st, id |-> ItemRow(st.db, name).id]
    ELSE LET id == st.ai.items + 1
             row == [id |-> id, name |-> name, name_lc |-> Lower(name),
                     notes_filter |-> Null]
         IN [st |-> [st EXCEPT !.db.items = @ \cup {row}, !.ai.items = id],
             id |-> id]

\* should_store_item: no catalog row -> True; else int(notes_filter) == 1
\* (int(None) raises, which the function answers with False)
should_store_item(db, name) ==
  IF ~ItemKnown(db, name) THEN TRUE
  ELSE LET nf == ItemRow(db, name).notes_filter
       IN IF nf = Null THEN FALSE ELSE nf = 1

\* upsert_document: INSERT ... ON DUPLICATE KEY UPDATE on the primary key unid
upsert_document(st, doc_row) ==
  [st EXCEPT !.db.documents =
     {r \in @ : r.unid # doc_row.unid} \cup {doc_row}]

\* the parameters (kind, s, t, n, dt, b, att_id) of an item value
Params(kind) ==
  [kind |-> kind, s |-> NullS, t |-> NullS, n |-> Null, dt |-> NullDT,
   b |-> Null, att |-> Null]

\* a DATETIME column keeps no fractional seconds
StoreDatetime(dt) == IF dt = NullDT THEN NullDT ELSE <<dt[1], 0>>

\* WHERE clause of _select_existing_item_value
MatchesItemValue(r, item_id, p) ==
  /\ r.item_id = item_id
  /\ r.val_kind = p.kind
  /\ StrNullSafeEq(r.v_string, p.s)
  /\ StrNullSafeEq(r.v_text, p.t)
  /\ r.v_number = p.n
  /\ r.v_datetime = p.dt
  /\ r.v_bool = p.b
  /\ r.attachment_id = p.att

\* _select_existing_item_value: the id of a matching row (LIMIT 1), or None
select_existing_item_value(db, item_id, p) ==
  IF \E r \in db.item_values : MatchesItemValue(r, item_id, p)
    THEN (CHOOSE r \in db.item_values : MatchesItemValue(r, item_id, p)).id
    ELSE Null

\* _none of _compute_val_hash, on a string
NoneS(x) == IF x = NullS THEN "" ELSE x

\* mutant of _compute_val_hash: the datetime hashed with its fraction
compute_val_hash_Micro(item_id, p) ==
  <<item_id, p.kind, NoneS(p.s), NoneS(p.t), p.n,
    IF p.dt = NullDT THEN Null ELSE 10 * p.dt[1] + p.dt[2], p.b, p.att>>

\* _compute_val_hash: SHA-256 of the fields joined by 0x1F, the datetime
\* formatted to whole seconds. The digest is modelled by the tuple of the
\* joined fields (SHA-256 taken as injective on the payload).
compute_val_hash(item_id, p) ==
  <<item_id, p.kind, NoneS(p.s), NoneS(p.t), p.n,
    IF p.dt = NullDT THEN Null ELSE p.dt[1], p.b, p.att>>

\* ALTER TABLE item_values ADD UNIQUE KEY uk_itemvalue_dedup
uk_itemvalue_dedup(rows, item_id, kind, val_hash) ==
  \A r \in rows :
    ~(r.item_id = item_id /\ r.val_kind = kind /\ r.val_hash = val_hash)

\* get_or_create_item_value: select; if absent, INSERT (a duplicate key on
\* uk_itemvalue_dedup raises IntegrityError). Returns [st, id].
get_or_create_item_value(st, item_id, p) ==
  LET existing == select_existing_item_value(st.db, item_id, p)
      val_hash == compute_val_hash(item_id, p)
      id       == st.ai.item_values + 1
      row      == [id |-> id, item_id |-> item_id, val_kind |-> p.kind,
                   val_hash |-> val_hash, v_string |-> p.s, v_text |-> p.t,
                   v_number |-> p.n, v_datetime |-> StoreDatetime(p.dt),
                   v_bool |-> p.b, attachment_id |-> p.att]
  IN IF existing # Null THEN [st |-> st, id |-> existing]
     ELSE IF ~uk_itemvalue_dedup(st.db.item_values, item_id, p.kind, val_hash)
       THEN [st |-> [st EXCEPT !.err = TRUE], id |-> Null]
       ELSE [st |-> [st EXCEPT !.db.item_values = @ \cup {row},
                               !.ai.item_values = id],
             id |-> id]

\* link_doc_item_value: upsert on the primary key (unid, item_id, val_order)
link_doc_item_value(st, unid, item_id, order_idx, item_value_id) ==
  LET row == [unid |-> unid, item_id |-> item_id, val_order |-> order_idx,
              item_value_id |-> item_value_id, is_summary |-> 0]
  IN [st EXCEPT !.db.doc_item_values =
        {r \in @ : ~(r.unid = unid /\ r.item_id = item_id
                     /\ r.val_order = order_idx)} \cup {row}]

\* insert_item_value: get_or_create_item_value, then link_doc_item_value
insert_item_value(st, unid, item_id, order_idx, p) ==
  IF st.err THEN st
  ELSE LET r == get_or_create_item_value(st, item_id, p)
       IN IF r.st.err THEN r.st
          ELSE link_doc_item_value(r.st, unid, item_id, order_idx, r.id)

\* _canon_category_path: split on "\", strip, drop the empty parts, rejoin.
\* A path is the sequence of its parts; None and "" are the empty sequence.
Strip(part) ==
  CASE part = " a" -> "a"
    [] part = " "  -> ""
    [] OTHER       -> part

RECURSIVE CanonParts(_)
CanonParts(parts) ==
  IF parts = <<>> THEN <<>>
  ELSE IF Strip(Head(parts)) = "" THEN CanonParts(Tail(parts))
       ELSE <<Strip(Head(parts))>> \o CanonParts(Tail(parts))

canon_category_path(category_path) == CanonParts(category_path)

\* insert_document_view: INSERT ... ON DUPLICATE KEY UPDATE under the unique key
\* (unid, view_name, category_path); a unique key never matches a NULL column
insert_document_view(st, unid, view_name, category_path) ==
  LET cat  == canon_category_path(category_path)
      leaf == IF cat = <<>> THEN NullS ELSE cat[Len(cat)]
      dup(r) == r.unid = unid /\ r.view_name = view_name
                /\ cat # <<>> /\ r.category_path = cat
      id   == st.ai.document_views + 1
      row  == [id |-> id, unid |-> unid, view_name |-> view_name,
               category_path |-> cat, leaf_category |-> leaf]
  IN IF \E r \in st.db.document_views : dup(r)
       THEN st
       ELSE [st EXCEPT !.db.document_views = @ \cup {row},
                       !.ai.document_views = id]

\* the row of uk_file (sha256, unid, filename) that insert_attachment selects
AttachmentMatch(r, row) ==
  r.unid = row.unid /\ Lower(r.filename) = Lower(row.filename)
  /\ r.sha256 = row.sha256

\* mutant of insert_attachment: a plain INSERT of a new row every time
insert_attachment_NoIgnore(st, row) ==
  LET id == st.ai.attachments + 1
  IN [st |-> [st EXCEPT !.db.attachments = @ \cup {[row EXCEPT !.id = id]},
                        !.ai.attachments = id],
      id |-> id]

\* insert_attachment: INSERT IGNORE, then SELECT id. Returns [st, id].
insert_attachment(st, row) ==
  LET id  == st.ai.attachments + 1
      st1 == IF \E r \in st.db.attachments : AttachmentMatch(r, row)
               THEN st
               ELSE [st EXCEPT !.db.attachments =
                                  @ \cup {[row EXCEPT !.id = id]},
                               !.ai.attachments = id]
  IN [st |-> st1,
      id |-> (CHOOSE r \in st1.db.attachments : AttachmentMatch(r, row)).id]

\* sha256_file: the digest of a file's bytes (SHA-256 taken as injective)
sha256_file(bytes) == <<"sha256", bytes>>

\* cas_store: the blob is copied to <hh>/<hh>/<hex>.bin unless it exists
CasRel(digest) == <<"rel", digest[2]>>

\* mutant of cas_store: a blob is written at a fresh path on every call
cas_store_PerCall(cas, bytes) ==
  LET digest == sha256_file(bytes)
      rel    == <<"rel", digest[2], Cardinality(cas)>>
  IN [cas |-> cas \cup {[path |-> rel, bytes |-> bytes]},
      sha |-> digest, rel |-> rel]

cas_store(cas, bytes) ==
  LET digest == sha256_file(bytes)
      rel    == CasRel(digest)
  IN [cas |-> IF \E f \in cas : f.path = rel THEN cas
              ELSE cas \cup {[path |-> rel, bytes |-> bytes]},
      sha |-> digest, rel |-> rel]

\* _sig_for_snapshot: SHA-256 over utf8(UNID) 0x00 for every row in order; the
\* digest is modelled by the sequence of UNIDs it is computed from
RECURSIVE sig_for_snapshot(_)
sig_for_snapshot(rows) ==
  IF rows = <<>> THEN <<>>
  ELSE <<Head(rows)[1]>> \o sig_for_snapshot(Tail(rows))

\* load_checkpoint: the row of (plan_id, source_id, view_name), or None
NoCkpt == [snapshot_sig |-> <<"none">>, next_index |-> Null, last_unid |-> NullS]

load_checkpoint(db) ==
  IF db.etl_checkpoints = {} THEN NoCkpt
  ELSE CHOOSE r \in db.etl_checkpoints : TRUE

\* upsert_checkpoint: INSERT ... ON DUPLICATE KEY UPDATE on uk_checkpoint
upsert_checkpoint(st, snapshot_sig, next_index, last_unid) ==
  [st EXCEPT !.db.etl_checkpoints =
     {[snapshot_sig |-> snapshot_sig, next_index |-> next_index,
       last_unid |-> last_unid]}]

(* ------------------------------------------------------------------ *)
(* Notes documents                                                    *)
(* ------------------------------------------------------------------ *)
EO_TYPE_IMAGE      == 1452
EO_TYPE_OLE        == 1453
EO_TYPE_ATTACHMENT == 1454

\* an item with Values (a list), a rich-text item with its Text and its
\* EmbeddedObjects, an item whose Values is None
Item(name, vals) ==
  [name |-> name, rich |-> FALSE, novals |-> FALSE, vals |-> vals,
   text |-> "", eos |-> <<>>]
Rich(name, text, eos) ==
  [name |-> name, rich |-> TRUE, novals |-> FALSE, vals |-> <<VStr(text)>>,
   text |-> text, eos |-> eos]
Empty(name) ==
  [name |-> name, rich |-> FALSE, novals |-> TRUE, vals |-> <<>>,
   text |-> "", eos |-> <<>>]
\* an embedded object: ok says whether ExtractFile succeeds
EO(name, type, bytes, ok) ==
  [name |-> name, type |-> type, bytes |-> bytes, ok |-> ok]

\* str(v) of a value, and safe_str: truncation to max_len
StrOf(v) ==
  CASE v.t = "str"  -> v.s
    [] v.t = "num"  -> "num"
    [] v.t = "bool" -> "bool"
    [] v.t = "dt"   -> "dt"
    [] OTHER        -> "None"

safe_str(val, max_len) ==
  IF val = VNone THEN NullS
  ELSE IF val.t = "str" /\ val.long
         THEN (CASE max_len = 1024 -> Prefix1024(val.s)
                 [] max_len = 512  -> "pre512(" \o val.s \o ")"
                 [] OTHER          -> "pre256(" \o val.s \o ")")
         ELSE StrOf(val)

FORM_MAX    == 256
SUBJECT_MAX == 1024
AUTHOR_MAX  == 512

\* first loop of upsert_document_from_notes: the first item named nm (lower
\* case) that has values gives the field; None if there is none
RECURSIVE FirstValue(_, _)
FirstValue(items, names) ==
  IF items = <<>> THEN VNone
  ELSE IF Lower(Head(items).name) \in names /\ Head(items).vals # <<>>
          /\ Head(items).vals[1] # VNone
         THEN Head(items).vals[1]
         ELSE FirstValue(Tail(items), names)

\* the parameters coerce_insert_item_values gives insert_item_value for v
CoerceParams(v, is_rich) ==
  CASE v.t = "bool" -> [Params("bool") EXCEPT !.b = v.b]
    [] v.t = "num"  -> [Params("number") EXCEPT !.n = v.n]
    [] v.t = "dt"   -> [Params("datetime") EXCEPT !.dt = as_dt(v)]
    [] OTHER ->
         IF as_dt(v) # NullDT THEN [Params("datetime") EXCEPT !.dt = as_dt(v)]
         ELSE IF v = VNone THEN Params("unknown")
         ELSE IF ~v.long
           THEN [Params(IF is_rich THEN "richtext" ELSE "string")
                   EXCEPT !.s = v.s]
           ELSE [Params(IF is_rich THEN "richtext" ELSE "text")
                   EXCEPT !.s = Prefix1024(v.s), !.t = v.s]

RECURSIVE CoerceLoop(_, _, _, _, _, _)
CoerceLoop(st, unid, item_id, vals, idx, is_rich) ==
  IF idx >= Len(vals) \/ st.err THEN st
  ELSE CoerceLoop(
         insert_item_value(st, unid, item_id, idx,
                           CoerceParams(vals[idx + 1], is_rich)),
         unid, item_id, vals, idx + 1, is_rich)

\* coerce_insert_item_values: get_item_id, then one insert_item_value per value
coerce_insert_item_values(st, unid, item_name, vals, is_rich) ==
  LET r == get_item_id(st, item_name)
  IN CoerceLoop(r.st, unid, r.id, vals, 0, is_rich)

\* extract_embedded_attachments_from_doc: [cas, out], out the metadata rows of
\* the objects of type image, OLE or attachment whose ExtractFile succeeded
RECURSIVE ExtractEos(_, _, _, _, _)
ExtractEos(acc, unid, item_name, eos, idx) ==
  IF idx > Len(eos) THEN acc
  ELSE LET eo == eos[idx]
           c  == cas_store(acc.cas, eo.bytes)
           kind == IF eo.type = EO_TYPE_ATTACHMENT THEN "attachment"
                   ELSE IF eo.type = EO_TYPE_IMAGE THEN "image" ELSE "ole"
           meta == [id |-> Null, unid |-> unid, item_name |-> item_name,
                    kind |-> kind, filename |-> eo.name, sha256 |-> c.sha,
                    storage_path |-> c.rel]
       IN IF eo.type \notin {EO_TYPE_IMAGE, EO_TYPE_OLE, EO_TYPE_ATTACHMENT}
               \/ ~eo.ok
            THEN ExtractEos(acc, unid, item_name, eos, idx + 1)
            ELSE ExtractEos([cas |-> c.cas, out |-> Append(acc.out, meta)],
                            unid, item_name, eos, idx + 1)

RECURSIVE ExtractItems(_, _, _)
ExtractItems(acc, unid, items) ==
  IF items = <<>> THEN acc
  ELSE ExtractItems(ExtractEos(acc, unid, Head(items).name, Head(items).eos, 1),
                    unid, Tail(items))

extract_embedded_attachments_from_doc(cas, doc) ==
  ExtractItems([cas |-> cas, out |-> <<>>], doc.unid, doc.items)

\* con.commit()
commit(st) == [st EXCEPT !.committed = st.db]

\* con.rollback(), and what a lost connection leaves of the transaction
rollback(st) == [st EXCEPT !.db = st.committed]

\* the items loop of upsert_document_from_notes (items -> normalized EAV)
RECURSIVE ItemsLoop(_, _, _)
ItemsLoop(st, unid, items) ==
  IF items = <<>> \/ st.err THEN st
  ELSE LET item == Head(items)
           st1 == IF ~should_store_item(st.db, item.name) THEN st
                  ELSE IF item.rich
                    THEN coerce_insert_item_values(st, unid, item.name,
                                                   <<VStr(item.text)>>, TRUE)
                  ELSE IF item.novals THEN st
                  ELSE coerce_insert_item_values(st, unid, item.name,
                                                 item.vals, FALSE)
       IN ItemsLoop(st1, unid, Tail(items))

\* the attachments loop: [st, ids], ids the pairs <<filename, attachment id>>
RECURSIVE AttachmentsLoop(_, _)
AttachmentsLoop(acc, metas) ==
  IF metas = <<>> THEN acc
  ELSE LET r == insert_attachment(acc.st, Head(metas))
       IN AttachmentsLoop(
            [st  |-> [r.st EXCEPT !.stats.atts = @ + 1],
             ids |-> Append(acc.ids, <<Head(metas).filename, r.id>>)],
            Tail(metas))

\* att_ids_by_filename.get(fn): the id stored last under the key fn, or None
RECURSIVE AttIdOf(_, _)
AttIdOf(ids, fn) ==
  IF ids = <<>> THEN Null
  ELSE IF ids[Len(ids)][1] = fn THEN ids[Len(ids)][2]
       ELSE AttIdOf(SubSeq(ids, 1, Len(ids) - 1), fn)

RECURSIVE FileValues(_, _, _, _, _, _)
FileValues(st, unid, item_id, vals, idx, ids) ==
  IF idx >= Len(vals) \/ st.err THEN st
  ELSE LET fn_s == StrOf(vals[idx + 1])
           p == [Params("string") EXCEPT !.s = fn_s, !.att = AttIdOf(ids, fn_s)]
       IN FileValues(insert_item_value(st, unid, item_id, idx, p),
                     unid, item_id, vals, idx + 1, ids)

\* the $FILE linker loop
RECURSIVE FileLoop(_, _, _, _)
FileLoop(st, unid, items, ids) ==
  IF items = <<>> \/ st.err THEN st
  ELSE LET item == Head(items)
           st1 == IF item.name # "$FILE" THEN st
                  ELSE IF ~should_store_item(st.db, "$FILE") THEN st
                  ELSE LET r == get_item_id(st, "$FILE")
                       IN FileValues(r.st, unid, r.id, item.vals, 0, ids)
       IN FileLoop(st1, unid, Tail(items), ids)

\* upsert_document_from_notes: the document row, its item values and links,
\* its attachments and $FILE links, then con.commit(). A statement that raises
\* leaves the transaction open (nothing is rolled back, nothing committed).
upsert_document_from_notes(st, doc) ==
  IF doc.unid = NullS THEN st
  ELSE
    LET ex == extract_embedded_attachments_from_doc(st.cas, doc)
        doc_row ==
          [unid    |-> doc.unid,
           subject |-> safe_str(FirstValue(doc.items, {"subject"}), SUBJECT_MAX),
           form    |-> safe_str(FirstValue(doc.items, {"form"}), FORM_MAX),
           author  |-> safe_str(FirstValue(doc.items,
                                    {"author", "from", "postedby"}), AUTHOR_MAX),
           has_attachments |-> IF ex.out # <<>> THEN 1 ELSE 0]
        st1 == upsert_document([st EXCEPT !.cas = ex.cas], doc_row)
        st2 == ItemsLoop([st1 EXCEPT !.stats.upserted = @ + 1],
                         doc.unid, doc.items)
        a3  == IF st2.err THEN [st |-> st2, ids |-> <<>>]
               ELSE AttachmentsLoop([st |-> st2, ids |-> <<>>], ex.out)
        st4 == FileLoop(a3.st, doc.unid, doc.items, a3.ids)
    IN IF st4.err THEN st4 ELSE commit(st4)

(* ------------------------------------------------------------------ *)
(* The upstream database and the view                                 *)
(* ------------------------------------------------------------------ *)
Doc1 ==
  [unid |-> "U1",
   items |-> << Item("Subject", <<VStr("hello")>>),
                Item("Tag", <<VStr("a"), VNum(1)>>),
                Rich("Body", "rt", <<EO("f.txt", EO_TYPE_ATTACHMENT, "B1", TRUE)>>),
                Item("$FILE", <<VStr("f.txt")>>) >>]

Doc2 ==
  [unid |-> "U2",
   items |-> << Item("From", <<VStr("bob")>>),
                Item("tag", <<VStr("A")>>),
                Item("internalNote", <<VStr("n")>>),
                Empty("subject"),
                Rich("Body", "rt2",
                     << EO("g.txt", EO_TYPE_OLE, "B1", TRUE),
                        EO("bad", EO_TYPE_ATTACHMENT, "B2", FALSE),
                        EO("x", 7, "B3", TRUE) >>) >>]

Doc3 ==
  [unid |-> "U3",
   items |-> << Item("Flag", <<VBool(1), VNone, VLong("L"), VIso("2020", 7, 0)>>),
                Item("When", <<VDate(6, 0, 1), VDate(5, 1, NoTz)>>) >>]

Docs == {Doc1, Doc2, Doc3}

\* GetDocumentByUNID: the document, or None (NoDoc) when the database has none
NoDoc == [unid |-> NullS, items |-> <<>>]

GetDocumentByUNID(unid) ==
  IF \E d \in Docs : d.unid = unid
    THEN CHOOSE d \in Docs : d.unid = unid
    ELSE NoDoc

\* what snapshot_view_entries may return for the view: <<UNID, category_path>>
Snapshots ==
  { << <<"U1", <<"a">>>>, <<"U2", <<>>>>, <<"U3", <<"a", "b">>>> >>,
    << <<"U3", <<"a", "b">>>>, <<"U1", <<"a">>>>, <<"U4", <<>>>>, <<"U2", <<"c">>>> >>,
    << <<"U2", <<>>>>, <<"U1", <<"a">>>> >>,
    << >> }

\* the Item catalog an administrator may have prepared before the first pass
CatRow(id, name, nf) ==
  [id |-> id, name |-> name, name_lc |-> Lower(name), notes_filter |-> nf]

Catalogs ==
  { {},
    { CatRow(1, "subject", 1), CatRow(2, "internalNote", 0), CatRow(3, "$FILE", 1) },
    { CatRow(1, "Tag", 1), CatRow(2, "When", 1), CatRow(3, "Body", Null),
      CatRow(4, "Subject", 2) } }

VIEW_NAME == "People"

ZeroStats == [scanned |-> 0, upserted |-> 0, atts |-> 0, errors |-> 0]

(* ------------------------------------------------------------------ *)
(* process_view_into_db                                               *)
(* ------------------------------------------------------------------ *)
\* the body of the for loop over a batch, for one (unid, category_path):
\* st the connection after it, found whether GetDocumentByUNID gave a
\* document, raised whether upsert_document_from_notes raised
TryEntry(st, entry) ==
  LET doc == GetDocumentByUNID(entry[1])
  IN IF doc = NoDoc
       THEN [st |-> [st EXCEPT !.stats.errors = @ + 1],
             found |-> FALSE, raised |-> FALSE]
       ELSE LET st1 == upsert_document_from_notes(st, doc)
            IN IF st1.err
                 THEN [st |-> [st1 EXCEPT !.err = FALSE, !.stats.errors = @ + 1],
                       found |-> TRUE, raised |-> TRUE]
                 ELSE [st |-> [insert_document_view(st1, doc.unid, VIEW_NAME,
                                                    entry[2])
                                 EXCEPT !.stats.scanned = @ + 1],
                       found |-> TRUE, raised |-> FALSE]

ProcessEntry(st, entry) == TryEntry(st, entry).st

\* whether processing the entry reaches the con.commit() that ends
\* upsert_document_from_notes
EntryCommits(st, entry) ==
  LET r == TryEntry(st, entry) IN r.found /\ ~r.raised

\* whether upsert_document_from_notes raises for the entry
EntryRaises(st, entry) == TryEntry(st, entry).raised

\* the rows of db1 that db0 does not hold, each with the name of its table
NewRows(db0, db1) ==
  UNION { {<<t, r>> : r \in db1[t] \ db0[t]} : t \in DOMAIN db1 }

\* mutants of StartIndex: resume one entry too far; ignore the checkpoint;
\* ignore the signature
StartIndex_SkipOne(db, snapshot_sig) ==
  LET ckpt == load_checkpoint(db)
  IN IF ckpt # NoCkpt /\ ckpt.snapshot_sig = snapshot_sig
       THEN ckpt.next_index + 1 ELSE 0

StartIndex_Zero(db, snapshot_sig) == 0

StartIndex_AnySig(db, snapshot_sig) ==
  LET ckpt == load_checkpoint(db)
  IN IF ckpt # NoCkpt THEN ckpt.next_index ELSE 0

\* the index the pass starts at: the stored next_index when the stored
\* signature is the snapshot's, else 0
StartIndex(db, snapshot_sig) ==
  LET ckpt == load_checkpoint(db)
  IN IF ckpt # NoCkpt /\ ckpt.snapshot_sig = snapshot_sig
       THEN ckpt.next_index ELSE 0

\* con.commit() after the batch, then the checkpoint and its own con.commit()
CommitStep(st) == commit(st)

\* mutant of CheckpointStep: last_unid is the first UNID of the batch
CheckpointStep_BatchHead(st, snapshot, snapshot_sig, next_index) ==
  commit(upsert_checkpoint(st, snapshot_sig, next_index,
                           snapshot[IF next_index > 1 THEN next_index - 1
                                    ELSE 1][1]))

CheckpointStep(st, snapshot, snapshot_sig, next_index) ==
  commit(upsert_checkpoint(st, snapshot_sig, next_index,
                           snapshot[next_index][1]))

(* ------------------------------------------------------------------ *)
(* State                                                              *)
(* ------------------------------------------------------------------ *)
VARIABLES
  con,       \* the SQL connection, the CAS and the counters of the pass
  pc,        \* where process_view_into_db stands: idle, loop, doc, ckpt
  snapshot,  \* the snapshot of the running pass
  next_idx,  \* next_idx of process_view_into_db
  end,       \* end of the running batch
  pos,       \* index of the next entry of the running batch
  runs,      \* passes started so far
  hist,      \* history of the passes, read by the properties only
  conc,      \* SpecConc: the isolation level and the writers' transactions
  fs,        \* SpecCas: the CAS directory and the callers of cas_store
  rt,        \* SpecRetry: the outcomes of fn and what the retry wrappers did
  sv,        \* SpecSnapshot: snapshot_view_entries iterating the view
  orch,      \* SpecMain: the plans of main and how far it got
  graph,     \* the directory export: limiter, requests, manager batches
  fn,        \* a function of the program applied to an input
  pool       \* the threaded extractor: handles of the object bridge, workers

\* the variables of the sink and of one pass over a view
sinkVars == <<con, pc, snapshot, next_idx, end, pos, runs, hist>>

\* the variables of the other components
restVars == <<graph, fn, pool>>

auxVars == <<fs, rt, sv, orch, restVars>>

vars == <<sinkVars, conc, auxVars>>

total == Len(snapshot)

snapshot_sig == sig_for_snapshot(snapshot)

Unids(snap, positions) == {snap[i][1] : i \in positions}

InitCon(cat) ==
  [db        |-> [EmptyDb EXCEPT !.items = cat],
   committed |-> [EmptyDb EXCEPT !.items = cat],
   ai        |-> [ZeroAi EXCEPT !.items = Cardinality(cat)],
   cas       |-> {},
   stats     |-> ZeroStats,
   err       |-> FALSE]

InitHist(c) ==
  [session_con  |-> c,       \* the connection when the first pass over the
   session_snap |-> <<>>,    \*   snapshot session_snap started
   clean        |-> TRUE,    \* every stop since then was at a batch boundary
   run_con      |-> c,       \* the connection when the running pass started
   start_ckpt   |-> NoCkpt,  \* the checkpoint the running pass loaded
   start        |-> 0,       \* the index the running pass started at
   fetched      |-> {},      \* positions fetched by the running pass
   durable      |-> {},      \* positions whose writes are all committed
   completed    |-> FALSE,   \* the last pass ran to its end
   log          |-> <<>>,    \* SpecUpsert: the UNIDs upserted, in order
   failed_rows  |-> {}]      \* rows written by upserts that raised

\* no concurrent writer
NoConc == [isolation |-> "", tx |-> <<>>]

\* no caller of cas_store outside the pass
NoFs == [platform |-> "", names |-> {}, inodes |-> <<>>, callers |-> <<>>]

\* no retried call, no snapshot being taken, no orchestrator
NoRetry == [pc |-> "idle"]

NoSnapshot == [pc |-> "idle"]

NoMain == [pc |-> "idle"]

\* the components a specification leaves out
NoGraph == [pc |-> "idle"]

NoCall == [pc |-> "idle"]

NoPool == [pc |-> "idle"]

RestIdle == graph = NoGraph /\ fn = NoCall /\ pool = NoPool

AuxIdle ==
  fs = NoFs /\ rt = NoRetry /\ sv = NoSnapshot /\ orch = NoMain /\ RestIdle

\* the sink and the pass as they are before any pass
PassIdle ==
  /\ con = InitCon({}) /\ hist = InitHist(InitCon({}))
  /\ pc = "idle"
  /\ snapshot = <<>>
  /\ next_idx = 0
  /\ end = 0
  /\ pos = 0
  /\ runs = 0
  /\ conc = NoConc

Init ==
  /\ \E cat \in Catalogs : con = InitCon(cat) /\ hist = InitHist(InitCon(cat))
  /\ pc = "idle"
  /\ snapshot = <<>>
  /\ next_idx = 0
  /\ end = 0
  /\ pos = 0
  /\ runs = 0
  /\ conc = NoConc
  /\ AuxIdle

(* ------------------------------------------------------------------ *)
(* Steps of process_view_into_db                                      *)
(* ------------------------------------------------------------------ *)
\* snapshot, signature, load_checkpoint, next_idx
Start(snap) ==
  /\ pc = "idle"
  /\ runs < MaxRuns
  /\ LET c == [con EXCEPT !.stats = ZeroStats]
         fresh == hist.completed \/ runs = 0 \/ snap # hist.session_snap
     IN /\ con' = c
        /\ hist' = [hist EXCEPT
                      !.session_con  = IF fresh THEN c ELSE @,
                      !.session_snap = snap,
                      !.clean        = IF fresh THEN TRUE ELSE @,
                      !.run_con      = c,
                      !.start_ckpt   = load_checkpoint(con.db),
                      !.start        = StartIndex(con.db, sig_for_snapshot(snap)),
                      !.fetched      = {},
                      !.durable      = {},
                      !.completed    = FALSE]
  /\ snapshot' = snap
  /\ next_idx' = StartIndex(con.db, sig_for_snapshot(snap))
  /\ pc' = "loop"
  /\ runs' = runs + 1
  /\ UNCHANGED <<auxVars, conc, end, pos>>

\* while next_idx < total: end, batch
BeginBatch ==
  /\ pc = "loop"
  /\ next_idx < total
  /\ end' = Min(next_idx + BatchSize, total)
  /\ pos' = next_idx
  /\ pc' = "doc"
  /\ UNCHANGED <<auxVars, conc, con, snapshot, next_idx, runs, hist>>

\* one entry of the batch: fetch, upsert_document_from_notes (which commits),
\* insert_document_view
ProcessDocWith(r) ==
  /\ con' = r.st
  /\ pos' = pos + 1
  /\ hist' = [hist EXCEPT
                !.fetched = @ \cup {pos + 1},
                !.durable = IF r.found /\ ~r.raised THEN hist.fetched ELSE @,
                !.failed_rows =
                   IF r.raised THEN @ \cup NewRows(con.db, r.st.db) ELSE @]
  /\ UNCHANGED <<auxVars, conc, pc, snapshot, next_idx, end, runs>>

ProcessDoc ==
  /\ pc = "doc"
  /\ pos < end
  /\ ProcessDocWith(TryEntry(con, snapshot[pos + 1]))

\* con.commit() after the for loop; next_idx = end
CommitBatch ==
  /\ pc = "doc"
  /\ pos = end
  /\ con' = CommitStep(con)
  /\ next_idx' = end
  /\ pc' = "ckpt"
  /\ hist' = [hist EXCEPT !.durable = hist.fetched]
  /\ UNCHANGED <<auxVars, conc, snapshot, end, pos, runs>>

\* upsert_checkpoint; con.commit()
Checkpoint ==
  /\ pc = "ckpt"
  /\ con' = CheckpointStep(con, snapshot, snapshot_sig, next_idx)
  /\ pc' = "loop"
  /\ UNCHANGED <<auxVars, conc, snapshot, next_idx, end, pos, runs, hist>>

\* the while loop ends: the pass is complete
Finish ==
  /\ pc = "loop"
  /\ next_idx >= total
  /\ pc' = "idle"
  /\ hist' = [hist EXCEPT !.completed = TRUE]
  /\ UNCHANGED <<auxVars, conc, con, snapshot, next_idx, end, pos, runs>>

\* the process is stopped: the open transaction is lost
Interrupt ==
  /\ pc # "idle"
  /\ con' = rollback(con)
  /\ pc' = "idle"
  /\ hist' = [hist EXCEPT !.clean = @ /\ pc = "loop"]
  /\ UNCHANGED <<auxVars, conc, snapshot, next_idx, end, pos, runs>>

Next ==
  \/ \E snap \in Snapshots : Start(snap)
  \/ BeginBatch
  \/ ProcessDoc
  \/ CommitBatch
  \/ Checkpoint
  \/ Finish
  \/ Interrupt

Spec == Init /\ [][Next]_vars

\* process_view_into_db run from its first line to its last, as one function
RECURSIVE RunEntries(_, _, _, _)
RunEntries(st, snap, i, hi) ==
  IF i >= hi THEN st
  ELSE RunEntries(ProcessEntry(st, snap[i + 1]), snap, i + 1, hi)

RECURSIVE RunLoop(_, _, _)
RunLoop(st, snap, idx) ==
  IF idx >= Len(snap) THEN st
  ELSE LET hi == Min(idx + BatchSize, Len(snap))
       IN RunLoop(CheckpointStep(CommitStep(RunEntries(st, snap, idx, hi)),
                                 snap, sig_for_snapshot(snap), hi),
                  snap, hi)

process_view_into_db(st, snap) ==
  RunLoop(st, snap, StartIndex(st.db, sig_for_snapshot(snap)))

(* ------------------------------------------------------------------ *)
(* A single writer upserting documents one after the other            *)
(* ------------------------------------------------------------------ *)
InitUpsert ==
  /\ \E cat \in Catalogs :
       /\ con = InitCon(cat)
       /\ hist = InitHist(InitCon(cat))
  /\ pc = "idle"
  /\ snapshot = <<>>
  /\ next_idx = 0
  /\ end = 0
  /\ pos = 0
  /\ runs = 0
  /\ conc = NoConc
  /\ AuxIdle

\* upsert_document_from_notes(doc) called as process_view_into_db calls it: an
\* exception is caught by the caller and the connection is used further
UpsertDoc(doc) ==
  /\ runs < MaxUpserts
  /\ LET st == upsert_document_from_notes(con, doc)
     IN con' = [st EXCEPT !.err = FALSE]
  /\ hist' = [hist EXCEPT !.run_con = con, !.log = Append(@, doc.unid)]
  /\ runs' = runs + 1
  /\ UNCHANGED <<auxVars, conc, pc, snapshot, next_idx, end, pos>>

NextUpsert == \E doc \in Docs : UpsertDoc(doc)

SpecUpsert == InitUpsert /\ [][NextUpsert]_vars

(* ------------------------------------------------------------------ *)
(* A single writer upserting documents whose embedded objects may     *)
(* fail to extract (eo.ExtractFile raises) on any of the upserts      *)
(* ------------------------------------------------------------------ *)
\* the document when ExtractFile raises for each of its embedded objects
ExtractFails(doc) ==
  [doc EXCEPT !.items =
     [k \in DOMAIN doc.items |->
        [doc.items[k] EXCEPT !.eos =
           [j \in DOMAIN doc.items[k].eos |->
              [doc.items[k].eos[j] EXCEPT !.ok = FALSE]]]]]

UpsertExtract(doc, fails) ==
  /\ runs < MaxUpserts
  /\ LET st == upsert_document_from_notes(
                 con, IF fails THEN ExtractFails(doc) ELSE doc)
     IN con' = [st EXCEPT !.err = FALSE]
  /\ hist' = [hist EXCEPT !.run_con = con, !.log = Append(@, doc.unid)]
  /\ runs' = runs + 1
  /\ UNCHANGED <<auxVars, conc, pc, snapshot, next_idx, end, pos>>

NextExtract == \E doc \in Docs : \E fails \in BOOLEAN : UpsertExtract(doc, fails)

SpecExtract == InitUpsert /\ [][NextExtract]_vars

(* ------------------------------------------------------------------ *)
(* Writers on separate connections, each running                      *)
(* get_or_create_item_value for one value of the item "Tag" in a      *)
(* transaction of its own (autocommit is off). con.committed is the   *)
(* committed state of the server and con.ai its AUTO_INCREMENT        *)
(* counters. A statement reads the committed rows (READ-COMMITTED) or *)
(* the rows committed when its transaction began (REPEATABLE-READ,    *)
(* the InnoDB default), and the rows of its own transaction.          *)
(* ------------------------------------------------------------------ *)
Writers == 1..NumWriters

ConcCatalog == { CatRow(1, "Tag", 1) }

ConcItemId == ItemRow([items |-> ConcCatalog], "Tag").id

\* the values the writers may be given
ConcParams ==
  { [Params("string") EXCEPT !.s = "a"],
    [Params("string") EXCEPT !.s = "A"],
    [Params("number") EXCEPT !.n = 1] }

\* the ItemValue rows committed before the writers start
ConcRows ==
  { {},
    { [id |-> 1, item_id |-> ConcItemId, val_kind |-> "number",
       val_hash |-> compute_val_hash(ConcItemId, [Params("number") EXCEPT !.n = 1]),
       v_string |-> NullS, v_text |-> NullS, v_number |-> 1,
       v_datetime |-> NullDT, v_bool |-> Null, attachment_id |-> Null] } }

InitTx(p) ==
  [pc |-> "begin", p |-> p, view |-> {}, own |-> {}, id |-> Null,
   raised |-> FALSE]

InitConc ==
  /\ \E rows \in ConcRows :
       LET c == [InitCon(ConcCatalog) EXCEPT
                   !.db.item_values = rows,
                   !.committed.item_values = rows,
                   !.ai.item_values = Cardinality(rows)]
       IN con = c /\ hist = InitHist(c)
  /\ \E iso \in {"REPEATABLE-READ", "READ-COMMITTED"} :
       \E ps \in [Writers -> ConcParams] :
         conc = [isolation |-> iso, tx |-> [w \in Writers |-> InitTx(ps[w])]]
  /\ AuxIdle
  /\ pc = "idle"
  /\ snapshot = <<>>
  /\ next_idx = 0
  /\ end = 0
  /\ pos = 0
  /\ runs = 0

\* the ItemValue rows a statement of writer w reads
Visible(w) ==
  (IF conc.isolation = "REPEATABLE-READ" THEN conc.tx[w].view
   ELSE con.committed.item_values) \cup conc.tx[w].own

\* the first statement of the transaction fixes its read view
ConcBegin(w) ==
  /\ conc.tx[w].pc = "begin"
  /\ conc' = [conc EXCEPT !.tx[w].view = con.committed.item_values,
                          !.tx[w].pc = "select"]
  /\ UNCHANGED <<auxVars, con, pc, snapshot, next_idx, end, pos, runs, hist>>

\* existing = _select_existing_item_value(...); if existing: return existing
ConcSelect(w) ==
  /\ conc.tx[w].pc = "select"
  /\ LET existing == select_existing_item_value([item_values |-> Visible(w)],
                                                ConcItemId, conc.tx[w].p)
     IN conc' = IF existing # Null
                  THEN [conc EXCEPT !.tx[w].id = existing, !.tx[w].pc = "commit"]
                  ELSE [conc EXCEPT !.tx[w].pc = "insert"]
  /\ UNCHANGED <<auxVars, con, pc, snapshot, next_idx, end, pos, runs, hist>>

\* INSERT INTO item_values; return cur.lastrowid. The statement waits while
\* another open transaction holds a row with the same unique key, and raises
\* IntegrityError (which get_or_create_item_value does not catch) when a
\* committed row holds it.
ConcInsert(w) ==
  /\ conc.tx[w].pc = "insert"
  /\ LET p        == conc.tx[w].p
         val_hash == compute_val_hash(ConcItemId, p)
         id       == con.ai.item_values + 1
         row      == [id |-> id, item_id |-> ConcItemId, val_kind |-> p.kind,
                      val_hash |-> val_hash, v_string |-> p.s, v_text |-> p.t,
                      v_number |-> p.n, v_datetime |-> StoreDatetime(p.dt),
                      v_bool |-> p.b, attachment_id |-> p.att]
     IN /\ \A o \in Writers \ {w} :
             uk_itemvalue_dedup(conc.tx[o].own, ConcItemId, p.kind, val_hash)
        /\ IF uk_itemvalue_dedup(con.committed.item_values \cup conc.tx[w].own,
                                 ConcItemId, p.kind, val_hash)
             THEN /\ conc' = [conc EXCEPT !.tx[w].own = @ \cup {row},
                                          !.tx[w].id = id,
                                          !.tx[w].pc = "commit"]
                  /\ con' = [con EXCEPT !.ai.item_values = id]
             ELSE /\ conc' = [conc EXCEPT !.tx[w].raised = TRUE,
                                          !.tx[w].pc = "commit"]
                  /\ con' = con
  /\ UNCHANGED <<auxVars, pc, snapshot, next_idx, end, pos, runs, hist>>

\* con.commit()
ConcCommit(w) ==
  /\ conc.tx[w].pc = "commit"
  /\ con' = [con EXCEPT !.committed.item_values = @ \cup conc.tx[w].own,
                        !.db.item_values = @ \cup conc.tx[w].own]
  /\ conc' = [conc EXCEPT !.tx[w].own = {}, !.tx[w].pc = "done"]
  /\ UNCHANGED <<auxVars, pc, snapshot, next_idx, end, pos, runs, hist>>

NextConc ==
  \E w \in Writers :
    \/ ConcBegin(w)
    \/ ConcSelect(w)
    \/ ConcInsert(w)
    \/ ConcCommit(w)

SpecConc == InitConc /\ [][NextConc]_vars

(* ------------------------------------------------------------------ *)
(* Concurrent callers of cas_store on one CAS directory. A directory  *)
(* entry names an inode; an inode holds the chunks written to it.     *)
(* shutil.copy2 opens the destination for writing (truncating it),    *)
(* writes the chunks at its own offset and closes. On POSIX a rename  *)
(* moves an entry whoever holds the file open; on Windows replacing a *)
(* file another handle holds open raises PermissionError.             *)
(* ------------------------------------------------------------------ *)
Callers == 1..NumCallers

CasContents == {"B1", "B2"}

\* dest = CAS_ROOT / rel, and tmp = dest.with_suffix(".tmp")
CasDest(bytes) == CasRel(sha256_file(bytes))

CasTmp(bytes) == <<"tmp", sha256_file(bytes)[2]>>

AllChunks == 1..CopyChunks

HasName(names, path) == \E e \in names : e.path = path

InodeOf(names, path) == (CHOOSE e \in names : e.path = path).ino

InitCaller(bytes) == [pc |-> "exists", bytes |-> bytes, fd |-> 0, off |-> 0]

\* the directory is empty, or holds the blob of B2 stored by an earlier call
InitCas ==
  /\ \E platform \in {"posix", "windows"} :
       \E bs \in [Callers -> CasContents] :
         \E stored \in BOOLEAN :
           fs = [platform |-> platform,
                 names    |-> IF stored
                                THEN {[path |-> CasDest("B2"), ino |-> 1]}
                                ELSE {},
                 inodes   |-> IF stored
                                THEN <<[bytes |-> "B2", chunks |-> AllChunks]>>
                                ELSE <<>>,
                 callers  |-> [c \in Callers |-> InitCaller(bs[c])]]
  /\ \E cat \in {{}} : con = InitCon(cat) /\ hist = InitHist(InitCon(cat))
  /\ pc = "idle"
  /\ snapshot = <<>>
  /\ next_idx = 0
  /\ end = 0
  /\ pos = 0
  /\ runs = 0
  /\ conc = NoConc
  /\ rt = NoRetry /\ sv = NoSnapshot /\ orch = NoMain /\ RestIdle

\* if not dest.exists(): ... else return
CasExists(c) ==
  /\ fs.callers[c].pc = "exists"
  /\ fs' = [fs EXCEPT !.callers[c].pc =
              IF HasName(fs.names, CasDest(fs.callers[c].bytes))
                THEN "done" ELSE "open"]
  /\ UNCHANGED <<sinkVars, conc, rt, sv, orch, restVars>>

\* shutil.copy2(src, tmp): open(tmp, "wb") creates the file or truncates it
CasOpen(c) ==
  /\ fs.callers[c].pc = "open"
  /\ LET tmp == CasTmp(fs.callers[c].bytes)
         ino == IF HasName(fs.names, tmp) THEN InodeOf(fs.names, tmp)
                ELSE Len(fs.inodes) + 1
     IN fs' = [fs EXCEPT
                 !.names = @ \cup {[path |-> tmp, ino |-> ino]},
                 !.inodes = IF HasName(fs.names, tmp)
                              THEN [@ EXCEPT ![ino].chunks = {}]
                              ELSE Append(@, [bytes |-> fs.callers[c].bytes,
                                              chunks |-> {}]),
                 !.callers[c].fd = ino,
                 !.callers[c].off = 0,
                 !.callers[c].pc = "copy"]
  /\ UNCHANGED <<sinkVars, conc, rt, sv, orch, restVars>>

\* shutil.copy2(src, tmp): write the next chunk at the handle's offset, or
\* close the handle after the last chunk
CasCopy(c) ==
  /\ fs.callers[c].pc = "copy"
  /\ LET off == fs.callers[c].off
         fd  == fs.callers[c].fd
     IN fs' = IF off < CopyChunks
                THEN [fs EXCEPT !.inodes[fd].chunks = @ \cup {off + 1},
                                !.callers[c].off = off + 1]
                ELSE [fs EXCEPT !.callers[c].fd = 0,
                                !.callers[c].pc = "rename"]
  /\ UNCHANGED <<sinkVars, conc, rt, sv, orch, restVars>>

\* tmp.replace(dest): FileNotFoundError when tmp is gone, PermissionError on
\* Windows while another caller holds tmp open; the move itself is atomic
CasRename(c) ==
  /\ fs.callers[c].pc = "rename"
  /\ LET tmp  == CasTmp(fs.callers[c].bytes)
         dest == CasDest(fs.callers[c].bytes)
         held == /\ fs.platform = "windows"
                 /\ HasName(fs.names, tmp)
                 /\ \E o \in Callers \ {c} :
                      fs.callers[o].fd = InodeOf(fs.names, tmp)
     IN fs' = IF ~HasName(fs.names, tmp) \/ held
                THEN [fs EXCEPT !.callers[c].pc = "raised"]
                ELSE [fs EXCEPT
                        !.names = {e \in @ : e.path \notin {tmp, dest}}
                                    \cup {[path |-> dest,
                                           ino |-> InodeOf(fs.names, tmp)]},
                        !.callers[c].pc = "done"]
  /\ UNCHANGED <<sinkVars, conc, rt, sv, orch, restVars>>

NextCas ==
  \E c \in Callers :
    \/ CasExists(c)
    \/ CasOpen(c)
    \/ CasCopy(c)
    \/ CasRename(c)

SpecCas == InitCas /\ [][NextCas]_vars

(* ------------------------------------------------------------------ *)
(* The retry wrappers. fn is given by the outcomes of its successive  *)
(* invocations: "ok", "transient" (an error _is_transient_com_error   *)
(* accepts) or "fatal" (any other error). Delays are in tenths of a   *)
(* second.                                                            *)
(* ------------------------------------------------------------------ *)
RETRY_COM_TRIES == 6
RETRY_COM_BACKOFF == 15

\* mutant of retry_call: the sleep is taken before the last try is counted
RECURSIVE retry_call_SleepLast(_, _, _, _, _, _)
retry_call_SleepLast(outcomes, tries, attempt, delay, calls, sleeps) ==
  IF attempt >= tries
    THEN [result |-> "raised", calls |-> calls, sleeps |-> sleeps,
          raised_at |-> calls]
  ELSE LET out == outcomes[calls + 1]
       IN IF out = "ok"
            THEN [result |-> "returned", calls |-> calls + 1,
                  sleeps |-> sleeps, raised_at |-> 0]
          ELSE IF out = "fatal"
            THEN [result |-> "raised", calls |-> calls + 1,
                  sleeps |-> sleeps, raised_at |-> calls + 1]
          ELSE retry_call_SleepLast(outcomes, tries, attempt + 1, delay * 2,
                                    calls + 1, Append(sleeps, delay))

\* retry_call from the state of its while loop: attempt, delay, the
\* invocations of fn made and the sleeps taken so far
RECURSIVE retry_call(_, _, _, _, _, _)
retry_call(outcomes, tries, attempt, delay, calls, sleeps) ==
  IF attempt >= tries
    THEN [result |-> "raised", calls |-> calls, sleeps |-> sleeps,
          raised_at |-> calls]
  ELSE LET out == outcomes[calls + 1]
       IN IF out = "ok"
            THEN [result |-> "returned", calls |-> calls + 1,
                  sleeps |-> sleeps, raised_at |-> 0]
          ELSE IF out = "fatal"
            THEN [result |-> "raised", calls |-> calls + 1,
                  sleeps |-> sleeps, raised_at |-> calls + 1]
          ELSE IF attempt + 1 >= tries
            THEN [result |-> "raised", calls |-> calls + 1,
                  sleeps |-> sleeps, raised_at |-> calls + 1]
          ELSE retry_call(outcomes, tries, attempt + 1, delay * 2,
                          calls + 1, Append(sleeps, delay))

resilient_com(outcomes) ==
  retry_call(outcomes, RETRY_COM_TRIES, 0, RETRY_COM_BACKOFF, 0, <<>>)

\* the handle process_view_into_db was given, and NotesReopenContext before
\* any reopen (notes_db is None)
PassHandle == 0

NewContext == [notes_db |-> Null, opened |-> 0]

\* reopen_db: notes_db = open_db_fn(); an error leaves notes_db as it was and
\* is swallowed by the caller
reopen_db(ctx, ok) ==
  IF ok THEN [notes_db |-> ctx.opened + 1, opened |-> ctx.opened + 1]
  ELSE ctx

\* the handle _get_doc fetches from: the notes_db of its enclosing call
get_doc_handle(notes_db, ctx) == notes_db

\* resilient_com_with_reopen from the state of its while loop; reopens lists,
\* for every reopen_db, the invocations of fn made before it, and handles
\* the handle every invocation of fn used
RECURSIVE with_reopen_loop(_, _, _, _, _)
with_reopen_loop(outcomes, reopen_ok, attempt, delay, acc) ==
  IF attempt >= RETRY_COM_TRIES
    THEN [acc EXCEPT !.result = "raised", !.raised_at = acc.calls]
  ELSE LET out == outcomes[acc.calls + 1]
           a1  == [acc EXCEPT
                     !.calls = @ + 1,
                     !.handles = Append(@, get_doc_handle(PassHandle, acc.ctx))]
       IN IF out = "ok" THEN [a1 EXCEPT !.result = "returned"]
          ELSE IF out = "fatal"
            THEN [a1 EXCEPT !.result = "raised", !.raised_at = a1.calls]
          ELSE with_reopen_loop(
                 outcomes, reopen_ok, attempt + 1, delay * 2,
                 [a1 EXCEPT
                    !.sleeps = Append(@, delay),
                    !.reopens = Append(@, a1.calls),
                    !.reopened = Append(@, reopen_ok[attempt + 1]),
                    !.ctx = reopen_db(@, reopen_ok[attempt + 1])])

resilient_com_with_reopen(outcomes, reopen_ok) ==
  with_reopen_loop(outcomes, reopen_ok, 0, RETRY_COM_BACKOFF,
                   [result |-> "", raised_at |-> 0, calls |-> 0,
                    sleeps |-> <<>>, reopens |-> <<>>, reopened |-> <<>>,
                    handles |-> <<>>, ctx |-> NewContext])

\* fn may be invoked once more than the wrappers allow
OutcomeLen == RETRY_COM_TRIES + 1

Outcomes == [1..OutcomeLen -> {"ok", "transient", "fatal"}]

\* open_db_fn succeeds every time, never, or every other time
ReopenOutcomes ==
  { [i \in 1..RETRY_COM_TRIES |-> TRUE],
    [i \in 1..RETRY_COM_TRIES |-> FALSE],
    [i \in 1..RETRY_COM_TRIES |-> i % 2 = 0] }

InitRetry ==
  /\ \E o \in Outcomes : \E ok \in ReopenOutcomes :
       rt = [pc |-> "start", outcomes |-> o, reopen_ok |-> ok]
  /\ \E cat \in {{}} : con = InitCon(cat) /\ hist = InitHist(InitCon(cat))
  /\ pc = "idle"
  /\ snapshot = <<>>
  /\ next_idx = 0
  /\ end = 0
  /\ pos = 0
  /\ runs = 0
  /\ conc = NoConc
  /\ fs = NoFs /\ sv = NoSnapshot /\ orch = NoMain /\ RestIdle

\* a document fetch through each wrapper, fn behaving the same for both
FetchDoc ==
  /\ rt.pc = "start"
  /\ rt' = [pc |-> "fetched", outcomes |-> rt.outcomes,
            reopen_ok |-> rt.reopen_ok,
            retry |-> resilient_com(rt.outcomes),
            reopen |-> resilient_com_with_reopen(rt.outcomes, rt.reopen_ok)]
  /\ UNCHANGED <<sinkVars, conc, fs, sv, orch, restVars>>

\* the fetch of the next entry of the batch: its first invocation of fn
FetchNextDoc ==
  /\ rt.pc = "fetched"
  /\ rt' = [pc |-> "next", outcomes |-> rt.outcomes,
            reopen_ok |-> rt.reopen_ok, retry |-> rt.retry,
            reopen |-> rt.reopen,
            later |-> get_doc_handle(PassHandle, rt.reopen.ctx)]
  /\ UNCHANGED <<sinkVars, conc, fs, sv, orch, restVars>>

NextRetry == FetchDoc \/ FetchNextDoc

SpecRetry == InitRetry /\ [][NextRetry]_vars

(* ------------------------------------------------------------------ *)
(* snapshot_view_entries. A view is the sequence of its entries; an   *)
(* entry is a document (with its UNID and category column) or a       *)
(* category row. Every resilient_com call of one iteration returns,   *)
(* or raises a transient or another error, before or after the entry  *)
(* was captured (IsDocument / Document, or GetNextEntry).              *)
(* ------------------------------------------------------------------ *)
max_restarts == 5

DocEntry(unid, cat) == [isdoc |-> TRUE, unid |-> unid, cat |-> cat]

CategoryRow == [isdoc |-> FALSE, unid |-> NullS, cat |-> <<>>]

Views ==
  { << >>,
    << DocEntry("U1", <<"a">>) >>,
    << DocEntry("U1", <<"a">>), CategoryRow, DocEntry("U2", <<>>),
       DocEntry("U1", <<"b">>) >>,
    << CategoryRow, DocEntry("U3", <<"a", "b">>), DocEntry("U3", <<"c">>),
       DocEntry("U2", <<"c">>) >> }

StepOutcomes ==
  {"ok", "nocols", "transient_before", "fatal_before", "transient_after",
   "fatal_after"}

Raises(o) == o \notin {"ok", "nocols"}

Transient(o) == o \in {"transient_before", "transient_after"}

\* entries.GetFirstEntry, entries.GetNextEntry: 0 stands for no entry
GetFirstEntry(view) == IF view = <<>> THEN 0 ELSE 1

GetNextEntry(view, idx) == IF idx < Len(view) THEN idx + 1 ELSE 0

\* mutant of CanRestart: one restart more
CanRestart_OneMore(o, restarts) == Transient(o) /\ restarts < max_restarts + 1

\* if _is_transient_com_error(e) and restarts < max_restarts
CanRestart(o, restarts) == Transient(o) /\ restarts < max_restarts

\* mutant of Capture: every document entry is appended
Capture_NoSeen(state, entry, cols_ok) ==
  IF entry.isdoc /\ entry.unid # NullS
    THEN [state EXCEPT
            !.out = Append(@, <<entry.unid, IF cols_ok THEN entry.cat ELSE <<>>>>),
            !.seen = @ \cup {entry.unid},
            !.visited = Append(@, entry.unid)]
    ELSE state

\* the body of the loop up to seen.add(unid); visited records every UNID read
Capture(state, entry, cols_ok) ==
  IF entry.isdoc /\ entry.unid # NullS
    THEN IF entry.unid \notin state.seen
           THEN [state EXCEPT
                   !.out = Append(@, <<entry.unid,
                                       IF cols_ok THEN entry.cat ELSE <<>>>>),
                   !.seen = @ \cup {entry.unid},
                   !.visited = Append(@, entry.unid)]
           ELSE [state EXCEPT !.visited = Append(@, entry.unid)]
    ELSE state

InitSnapshot ==
  /\ \E view \in Views :
       sv = [pc |-> "start", view |-> view, idx |-> 0, out |-> <<>>,
             seen |-> {}, restarts |-> 0, visited |-> <<>>, last |-> "ok"]
  /\ \E cat \in {{}} : con = InitCon(cat) /\ hist = InitHist(InitCon(cat))
  /\ pc = "idle"
  /\ snapshot = <<>>
  /\ next_idx = 0
  /\ end = 0
  /\ pos = 0
  /\ runs = 0
  /\ conc = NoConc
  /\ fs = NoFs /\ rt = NoRetry /\ orch = NoMain /\ RestIdle

\* entries = resilient_com(_get_entries); entry = resilient_com(GetFirstEntry):
\* outside the try, an error propagates to the caller
SvOpen(ok) ==
  /\ sv.pc = "start"
  /\ sv' = IF ok THEN [sv EXCEPT !.pc = "iter", !.idx = GetFirstEntry(sv.view)]
           ELSE [sv EXCEPT !.pc = "raised"]
  /\ UNCHANGED <<sinkVars, conc, fs, rt, orch, restVars>>

\* one iteration of while entry, with its except clause
SvEntry(o, restart_ok) ==
  /\ sv.pc = "iter"
  /\ sv.idx # 0
  /\ LET s0 == [sv EXCEPT !.last = o]
         s1 == IF o \in {"transient_before", "fatal_before"} THEN s0
               ELSE Capture(s0, sv.view[sv.idx], o # "nocols")
     IN sv' = IF ~Raises(o)
                THEN [s1 EXCEPT !.idx = GetNextEntry(sv.view, sv.idx)]
              ELSE IF CanRestart(o, sv.restarts)
                THEN IF restart_ok
                       THEN [s1 EXCEPT !.restarts = @ + 1,
                                       !.idx = GetFirstEntry(sv.view)]
                       ELSE [s1 EXCEPT !.restarts = @ + 1, !.pc = "returned"]
              ELSE [s1 EXCEPT !.pc = "returned"]
  /\ UNCHANGED <<sinkVars, conc, fs, rt, orch, restVars>>

\* while entry ends: return out
SvReturn ==
  /\ sv.pc = "iter"
  /\ sv.idx = 0
  /\ sv' = [sv EXCEPT !.pc = "returned"]
  /\ UNCHANGED <<sinkVars, conc, fs, rt, orch, restVars>>

NextSnapshot ==
  \/ \E ok \in BOOLEAN : SvOpen(ok)
  \/ \E o \in StepOutcomes : \E restart_ok \in BOOLEAN : SvEntry(o, restart_ok)
  \/ SvReturn

\* the function runs on: it is never suspended for ever
SpecSnapshot ==
  InitSnapshot /\ [][NextSnapshot]_vars /\ WF_vars(NextSnapshot)

(* ------------------------------------------------------------------ *)
(* main: the loop over the enabled plans. A plan is given by whether  *)
(* open_database succeeds and by the outcome of process_view_into_db  *)
(* (or of select_views_for_plan) for each of its selected views.      *)
(* ------------------------------------------------------------------ *)
Plan(opens, views) == [opens |-> opens, views |-> views]

\* outcome of process_view_into_db for a view: "ok" (two documents scanned),
\* "error" (one document scanned, then an error that leaves the SQL
\* connection usable), "lost" (one document scanned, then the SQL connection
\* is lost: the statement raises and so does every later one)
PlanKinds ==
  { Plan(FALSE, <<>>), Plan(TRUE, <<>>), Plan(TRUE, <<"ok">>),
    Plan(TRUE, <<"ok", "ok">>), Plan(TRUE, <<"error", "ok">>),
    Plan(TRUE, <<"ok", "error">>), Plan(TRUE, <<"ok", "lost">>) }

\* the counters process_view_into_db adds for a view
ViewStats(stats, outcome) ==
  [stats EXCEPT !.scanned = @ + (IF outcome = "ok" THEN 2 ELSE 1),
                !.upserted = @ + (IF outcome = "ok" THEN 2 ELSE 1)]

\* start_etl_run: INSERT INTO etl_runs (source_id, started_at); lastrowid
start_etl_run(rows, source_id) ==
  rows \cup {[id |-> Cardinality(rows) + 1, source_id |-> source_id,
              ended_at |-> Null, stats |-> ZeroStats]}

\* mutant of finish_etl_run: the counters are not written
finish_etl_run_NoCounters(rows, run_id, stats) ==
  { IF r.id = run_id THEN [r EXCEPT !.ended_at = 1] ELSE r : r \in rows }

\* finish_etl_run: UPDATE etl_runs SET ended_at=NOW(), counters WHERE id
finish_etl_run(rows, run_id, stats) ==
  { IF r.id = run_id THEN [r EXCEPT !.ended_at = 1, !.stats = stats] ELSE r
      : r \in rows }

\* the finally clause of a plan: finish_etl_run and con.commit() on a usable
\* connection; on a lost connection finish_etl_run raises. An exception that
\* leaves the with block meets con.rollback() in sql_db
PlanFinally(o, raising) ==
  LET done == finish_etl_run(o.etl_runs, o.run_id, o.stats)
  IN IF ~o.alive THEN [o EXCEPT !.pc = "raised", !.etl_runs = o.etl_committed]
     ELSE IF raising
       THEN [o EXCEPT !.pc = "raised", !.etl_runs = done,
                      !.etl_committed = done, !.finished = @ \cup {o.i}]
       ELSE [o EXCEPT !.pc = "plan", !.i = @ + 1, !.etl_runs = done,
                      !.etl_committed = done, !.finished = @ \cup {o.i}]

InitMain ==
  /\ \E plans \in [1..NumPlans -> PlanKinds] :
       orch = [pc |-> "plan", plans |-> plans, i |-> 1, v |-> 0,
               opened |-> {}, views_done |-> {}, finished |-> {},
               etl_runs |-> {}, etl_committed |-> {}, run_id |-> 0,
               stats |-> ZeroStats, alive |-> TRUE]
  /\ \E cat \in {{}} : con = InitCon(cat) /\ hist = InitHist(InitCon(cat))
  /\ pc = "idle"
  /\ snapshot = <<>>
  /\ next_idx = 0
  /\ end = 0
  /\ pos = 0
  /\ runs = 0
  /\ conc = NoConc
  /\ fs = NoFs /\ rt = NoRetry /\ sv = NoSnapshot /\ RestIdle

\* for plan in plans: open_database; on an error print and continue; else
\* get_or_create_source, start_etl_run, stats, con.commit()
MainOpen ==
  /\ orch.pc = "plan"
  /\ orch.i <= Len(orch.plans)
  /\ orch' = IF orch.plans[orch.i].opens
               THEN LET rows == start_etl_run(orch.etl_runs, orch.i)
                    IN [orch EXCEPT !.pc = "views", !.v = 1,
                                    !.opened = @ \cup {orch.i},
                                    !.etl_runs = rows,
                                    !.etl_committed = rows,
                                    !.run_id = Cardinality(rows),
                                    !.stats = ZeroStats]
               ELSE [orch EXCEPT !.i = @ + 1]
  /\ UNCHANGED <<sinkVars, conc, fs, rt, sv, restVars>>

\* process_view_into_db for the next selected view. An error runs the finally
\* clause (finish_etl_run, commit) and propagates: no except clause encloses
\* the try, so it leaves the for loop over the plans and main
MainViewWith(outcome, counted) ==
  /\ orch' = IF outcome = "ok"
               THEN [counted EXCEPT !.v = @ + 1,
                                    !.views_done = @ \cup {<<orch.i, orch.v>>}]
               ELSE PlanFinally([counted EXCEPT !.alive = (outcome # "lost")],
                                TRUE)
  /\ UNCHANGED <<sinkVars, conc, fs, rt, sv, restVars>>

MainView ==
  /\ orch.pc = "views"
  /\ orch.v <= Len(orch.plans[orch.i].views)
  /\ MainViewWith(orch.plans[orch.i].views[orch.v],
                  [orch EXCEPT !.stats =
                     ViewStats(@, orch.plans[orch.i].views[orch.v])])

\* the views of the plan are done: finally clause, next plan
MainFinishPlan ==
  /\ orch.pc = "views"
  /\ orch.v > Len(orch.plans[orch.i].views)
  /\ orch' = PlanFinally(orch, FALSE)
  /\ UNCHANGED <<sinkVars, conc, fs, rt, sv, restVars>>

\* the for loop ends: [DONE]
MainDone ==
  /\ orch.pc = "plan"
  /\ orch.i > Len(orch.plans)
  /\ orch' = [orch EXCEPT !.pc = "done"]
  /\ UNCHANGED <<sinkVars, conc, fs, rt, sv, restVars>>

NextMain == MainOpen \/ MainView \/ MainFinishPlan \/ MainDone

SpecMain == InitMain /\ [][NextMain]_vars

\* main runs on: the interpreter executes the next statement of the one thread
SpecMainRun == InitMain /\ [][NextMain]_vars /\ WF_vars(NextMain)

(* ------------------------------------------------------------------ *)
(* The directory export: AdaptiveLimiter. Sleeps are in hundredths of *)
(* a second.                                                          *)
(* ------------------------------------------------------------------ *)
MIN_PAGE_SIZE == 25
MAX_CONSEC_SERVICE_ERRORS == 6
INTER_PAGE_SLEEP == 35

Max(a, b) == IF a > b THEN a ELSE b

\* values of the environment variable PAGE_SIZE (100 when it is not set)
PAGE_SIZES == {10, 25, 49, 100, 200}

\* AdaptiveLimiter.__init__
AdaptiveLimiter(PAGE_SIZE) ==
  [consec_service_errors |-> 0, page_sleep |-> INTER_PAGE_SLEEP,
   page_size |-> PAGE_SIZE, nap |-> 0]

note_success(l) ==
  [l EXCEPT !.consec_service_errors = Max(0, @ - 1), !.nap = 0]

\* mutant of note_service_error: page_size is halved without the floor
note_service_error_NoFloor(l) ==
  LET n == l.consec_service_errors + 1
      sleep1 == IF n \in {3, 4} THEN Min(l.page_sleep + 25, 200)
                ELSE l.page_sleep
  IN IF n >= MAX_CONSEC_SERVICE_ERRORS
       THEN [consec_service_errors |-> 0,
             page_sleep |-> Min(sleep1 + 50, 300),
             page_size |-> l.page_size \div 2,
             nap |-> 30 + 10 * (n - MAX_CONSEC_SERVICE_ERRORS)]
       ELSE [l EXCEPT !.consec_service_errors = n, !.page_sleep = sleep1,
                      !.nap = 0]

\* mutant of note_service_error: the heavy-throttle action one error early
note_service_error_Early(l) ==
  LET n == l.consec_service_errors + 1
      sleep1 == IF n \in {3, 4} THEN Min(l.page_sleep + 25, 200)
                ELSE l.page_sleep
  IN IF n >= MAX_CONSEC_SERVICE_ERRORS - 1
       THEN [consec_service_errors |-> 0,
             page_sleep |-> Min(sleep1 + 50, 300),
             page_size |-> Max(MIN_PAGE_SIZE, l.page_size \div 2),
             nap |-> 30]
       ELSE [l EXCEPT !.consec_service_errors = n, !.page_sleep = sleep1,
                      !.nap = 0]

\* note_service_error; nap is the long sleep of the call in seconds
note_service_error(l) ==
  LET n == l.consec_service_errors + 1
      sleep1 == IF n \in {3, 4} THEN Min(l.page_sleep + 25, 200)
                ELSE l.page_sleep
  IN IF n >= MAX_CONSEC_SERVICE_ERRORS
       THEN [consec_service_errors |-> 0,
             page_sleep |-> Min(sleep1 + 50, 300),
             page_size |-> Max(MIN_PAGE_SIZE, l.page_size \div 2),
             nap |-> 30 + 10 * (n - MAX_CONSEC_SERVICE_ERRORS)]
       ELSE [l EXCEPT !.consec_service_errors = n, !.page_sleep = sleep1,
                      !.nap = 0]

\* limiter = AdaptiveLimiter(); streak counts the note_service_error calls
\* made in a row since one found the counter at 0, first is the limiter that
\* call found, prev the limiter the last call found; row counts the
\* note_service_error calls since the last note_success and the last long nap,
\* errs those since the last long nap (up to MAX_CONSEC_SERVICE_ERRORS)
InitLimiter ==
  /\ \E ps \in PAGE_SIZES :
       graph = [pc |-> "limiter", limiter |-> AdaptiveLimiter(ps),
                streak |-> 0, first |-> AdaptiveLimiter(ps),
                prev |-> AdaptiveLimiter(ps), row |-> 0, errs |-> 0]
  /\ PassIdle
  /\ fs = NoFs /\ rt = NoRetry /\ sv = NoSnapshot /\ orch = NoMain
  /\ fn = NoCall /\ pool = NoPool

NoteSuccess ==
  /\ graph.pc = "limiter"
  /\ graph' = [graph EXCEPT !.limiter = note_success(@), !.streak = 0,
                            !.prev = graph.limiter,
                            !.row = 0,
                            !.errs = IF graph.limiter.nap > 0 THEN 0 ELSE @]
  /\ UNCHANGED <<sinkVars, conc, fs, rt, sv, orch, fn, pool>>

NoteServiceError ==
  /\ graph.pc = "limiter"
  /\ graph' = [graph EXCEPT
                 !.limiter = note_service_error(@),
                 !.streak = IF graph.limiter.consec_service_errors = 0 THEN 1
                            ELSE IF @ > 0 THEN @ + 1 ELSE 0,
                 !.first = IF graph.limiter.consec_service_errors = 0
                             THEN graph.limiter ELSE @,
                 !.prev = graph.limiter,
                 !.row = IF graph.limiter.nap > 0 THEN 1 ELSE @ + 1,
                 !.errs = IF graph.limiter.nap > 0 THEN 1
                          ELSE Min(@ + 1, MAX_CONSEC_SERVICE_ERRORS)]
  /\ UNCHANGED <<sinkVars, conc, fs, rt, sv, orch, fn, pool>>

NextLimiter == NoteSuccess \/ NoteServiceError

SpecLimiter == InitLimiter /\ [][NextLimiter]_vars

(* ------------------------------------------------------------------ *)
(* The directory export: with_backoff, one HTTP attempt per step      *)
(* ------------------------------------------------------------------ *)
MAX_ATTEMPTS == 8

\* logical requests made one after the other on the module's limiter
MaxRequests == 2

\* what the directory may answer: a status code and a body
Statuses == {200, 204, 429, 503, 404, 500}

Bodies == {"body1", "body2"}

Responses == [status : Statuses, body : Bodies]

\* resp.status_code in (200, 201, 204)
IsSuccess(status) == status \in {200, 201, 204}

\* mutant of IsThrottled: every 5xx status is retried
IsThrottled_Any5xx(status) == status \in {429, 500, 503, 504}

\* resp.status_code in (429, 503, 504)
IsThrottled(status) == status \in {429, 503, 504}

NoResult == [kind |-> "none", status |-> 0, body |-> ""]

\* a logical request before its first attempt: delay = 1.0; seen holds the
\* statuses received, last the last response, before the limiter it found
NewRequest(limiter, n) ==
  [pc |-> "request", limiter |-> limiter, requests |-> n, delay |-> 1,
   seen |-> <<>>, last |-> NoResult, before |-> limiter,
   result |-> NoResult]

\* one iteration of the for loop of with_backoff on the response resp
with_backoff(g, resp) ==
  LET g1 == [g EXCEPT !.seen = Append(@, resp.status), !.before = g.limiter,
                      !.last = [kind |-> "received", status |-> resp.status,
                                body |-> resp.body]]
  IN IF IsSuccess(resp.status)
       THEN [g1 EXCEPT !.limiter = note_success(@), !.pc = "returned",
                       !.result = [kind |-> "response",
                                   status |-> resp.status, body |-> resp.body]]
     ELSE IF IsThrottled(resp.status)
       THEN LET g2 == [g1 EXCEPT !.limiter = note_service_error(@),
                                 !.delay = Min(@ * 2, 30)]
            IN IF Len(g2.seen) < MAX_ATTEMPTS THEN g2
               ELSE [g2 EXCEPT !.pc = "raised",
                               !.result = [kind |-> "exceeded",
                                           status |-> 0, body |-> ""]]
     ELSE [g1 EXCEPT !.pc = "raised",
                     !.result = [kind |-> "http", status |-> resp.status,
                                 body |-> resp.body]]

InitBackoff ==
  /\ \E ps \in {25, 100} : graph = NewRequest(AdaptiveLimiter(ps), 1)
  /\ PassIdle
  /\ fs = NoFs /\ rt = NoRetry /\ sv = NoSnapshot /\ orch = NoMain
  /\ fn = NoCall /\ pool = NoPool

\* resp = _do_request(...), and what with_backoff does with it
BackoffAttempt(resp) ==
  /\ graph.pc = "request"
  /\ graph' = with_backoff(graph, resp)
  /\ UNCHANGED <<sinkVars, conc, fs, rt, sv, orch, fn, pool>>

\* the caller makes its next request (graph_get, graph_post_json)
BackoffNext ==
  /\ graph.pc \in {"returned", "raised"}
  /\ graph.requests < MaxRequests
  /\ graph' = NewRequest(graph.limiter, graph.requests + 1)
  /\ UNCHANGED <<sinkVars, conc, fs, rt, sv, orch, fn, pool>>

NextBackoff ==
  \/ \E resp \in Responses : BackoffAttempt(resp)
  \/ BackoffNext

SpecBackoff == InitBackoff /\ [][NextBackoff]_vars

(* ------------------------------------------------------------------ *)
(* The directory export: batch_get_managers, one $batch per step      *)
(* ------------------------------------------------------------------ *)
\* BATCH_LIMIT of the program, scaled down from 10
BatchLimit == 2

UserIds == {"u1", "u2", "u3"}

\* user_ids: the ids of the users fetched in this run
UserLists == { <<"u1", "u2", "u3">>, <<"u2", "u1">>, <<"u3">> }

\* what the directory answers to one sub-request: 200 with a manager, 404,
\* a throttling status, another status, or no sub-response at all
ItemOutcomes == {"200", "404", "429", "500", "missing"}

\* manager_map has no key for the user
Unset == "<unset>"

ManagerOf(uid) == "m-" \o uid

\* mutant of CanRequeue: one sub-request more
CanRequeue_OneMore(attempts_left) == attempts_left > 0

\* if attempts_left > 1: queue.append((uid, attempts_left - 1))
CanRequeue(attempts_left) == attempts_left > 1

\* mutant of handle_item: a failed sub-request records nothing
handle_item_DropFailed(g, uid, attempts_left, outcome) ==
  CASE outcome = "200" -> [g EXCEPT !.manager_map[uid] = ManagerOf(uid)]
    [] outcome = "404" -> [g EXCEPT !.manager_map[uid] = NullS]
    [] outcome = "429" ->
         LET g1 == [g EXCEPT !.limiter = note_service_error(@)]
         IN IF CanRequeue(attempts_left)
              THEN [g1 EXCEPT !.queue = Append(@, <<uid, attempts_left - 1>>)]
              ELSE [g1 EXCEPT !.manager_map[uid] = NullS]
    [] OTHER -> g

\* the body of "for item in responses" for the sub-response of uid
handle_item(g, uid, attempts_left, outcome) ==
  CASE outcome = "200" -> [g EXCEPT !.manager_map[uid] = ManagerOf(uid)]
    [] outcome = "404" -> [g EXCEPT !.manager_map[uid] = NullS]
    [] outcome = "429" ->
         LET g1 == [g EXCEPT !.limiter = note_service_error(@)]
         IN IF CanRequeue(attempts_left)
              THEN [g1 EXCEPT !.queue = Append(@, <<uid, attempts_left - 1>>)]
              ELSE [g1 EXCEPT !.manager_map[uid] = NullS]
    [] OTHER -> [g EXCEPT !.manager_map[uid] = NullS]

\* for item in responses, in the order of the sub-requests; a sub-request
\* with no sub-response is not visited
RECURSIVE handle_responses(_, _, _, _)
handle_responses(g, chunk, outcomes, k) ==
  IF k > Len(chunk) THEN g
  ELSE LET uid == chunk[k][1]
           g1 == [g EXCEPT !.sent[uid] = @ + 1,
                           !.last[uid] = outcomes[k],
                           !.unanswered = IF outcomes[k] = "missing"
                                            THEN @ \cup {uid} ELSE @ \ {uid}]
       IN handle_responses(
            IF outcomes[k] = "missing" THEN g1
            ELSE handle_item(g1, uid, chunk[k][2], outcomes[k]),
            chunk, outcomes, k + 1)

\* queue = deque([(uid, MAX_ATTEMPTS) for uid in user_ids]); sent counts the
\* sub-requests made for a user, last is the answer to the last of them
InitManagers ==
  /\ \E user_ids \in UserLists :
       graph = [pc |-> "batch", user_ids |-> user_ids,
                queue |-> [i \in 1..Len(user_ids) |->
                             <<user_ids[i], MAX_ATTEMPTS>>],
                manager_map |-> [u \in UserIds |-> Unset],
                limiter |-> AdaptiveLimiter(100),
                sent |-> [u \in UserIds |-> 0],
                last |-> [u \in UserIds |-> "none"],
                unanswered |-> {},
                chunk_len |-> 0]
  /\ PassIdle
  /\ fs = NoFs /\ rt = NoRetry /\ sv = NoSnapshot /\ orch = NoMain
  /\ fn = NoCall /\ pool = NoPool

\* one iteration of "while queue": the chunk, the POST of the batch (answered
\* at its first attempt), the sub-responses
batch_iteration(g, outcomes) ==
  LET n == Min(Len(g.queue), BatchLimit)
      chunk == SubSeq(g.queue, 1, n)
      g0 == [g EXCEPT !.queue = SubSeq(@, n + 1, Len(@)),
                      !.limiter = note_success(@),
                      !.chunk_len = n]
  IN handle_responses(g0, chunk, outcomes, 1)

ManagersBatch(outcomes) ==
  /\ graph.pc = "batch"
  /\ graph.queue # <<>>
  /\ graph' = batch_iteration(graph, outcomes)
  /\ UNCHANGED <<sinkVars, conc, fs, rt, sv, orch, fn, pool>>

\* graph_post_json raises: the batch was refused or throttled eight times
ManagersPostRaises ==
  /\ graph.pc = "batch"
  /\ graph.queue # <<>>
  /\ graph' = [graph EXCEPT
                 !.pc = "raised",
                 !.queue = SubSeq(@, Min(Len(@), BatchLimit) + 1, Len(@))]
  /\ UNCHANGED <<sinkVars, conc, fs, rt, sv, orch, fn, pool>>

\* the queue is empty: return manager_map
ManagersReturn ==
  /\ graph.pc = "batch"
  /\ graph.queue = <<>>
  /\ graph' = [graph EXCEPT !.pc = "returned"]
  /\ UNCHANGED <<sinkVars, conc, fs, rt, sv, orch, fn, pool>>

NextManagers ==
  \/ \E outcomes \in [1..BatchLimit -> ItemOutcomes] : ManagersBatch(outcomes)
  \/ ManagersPostRaises
  \/ ManagersReturn

\* the function runs on: every request is answered or times out
SpecManagers ==
  InitManagers /\ [][NextManagers]_vars /\ WF_vars(NextManagers)

(* ------------------------------------------------------------------ *)
(* The directory export: build_hierarchy                              *)
(* ------------------------------------------------------------------ *)
\* a manager id that is not the id of a loaded user
OutsideId == "x9"

\* manager maps: a loaded user, an id outside the loaded set, null, no key
ManagerMaps == [UserIds -> UserIds \cup {OutsideId, NullS, Unset}]

\* (x.get("displayName") or "").lower() of the user, as its rank in the order
\* of strings: u3 is "amy", u1 is "Bob", u2 is "bob"
NameRank(uid) == CASE uid = "u3" -> 1 [] uid = "u1" -> 2 [] OTHER -> 2

\* list.sort(key=...): a stable sort by NameRank
RECURSIVE SortByName(_)
SortByName(ids) ==
  IF ids = <<>> THEN <<>>
  ELSE LET rest == SortByName(Tail(ids))
           lo == SelectSeq(rest, LAMBDA x : NameRank(x) < NameRank(Head(ids)))
           hi == SelectSeq(rest, LAMBDA x : NameRank(x) >= NameRank(Head(ids)))
       IN lo \o <<Head(ids)>> \o hi

\* u["managerId"] = manager_map.get(uid)
AssignedManager(manager_map, uid) ==
  IF manager_map[uid] = Unset THEN NullS ELSE manager_map[uid]

\* if m and m in nodes
IsChild(uid, m, ids) == m # NullS /\ m \in ids

\* the second loop: reports of every node and roots, in the order of users
RECURSIVE LinkUsers(_, _, _, _)
LinkUsers(acc, users, manager_map, ids) ==
  IF users = <<>> THEN acc
  ELSE LET uid == Head(users)
           m == AssignedManager(manager_map, uid)
       IN LinkUsers(
            IF IsChild(uid, m, ids)
              THEN [acc EXCEPT !.reports[m] = Append(@, uid)]
              ELSE [acc EXCEPT !.roots = Append(@, uid)],
            Tail(users), manager_map, ids)

\* the nodes sort_recursive visits from node n
RECURSIVE Visited(_, _, _)
Visited(reports, n, fuel) ==
  IF fuel = 0 THEN {n}
  ELSE {n} \cup UNION { Visited(reports, reports[n][k], fuel - 1)
                          : k \in 1..Len(reports[n]) }

\* build_hierarchy: users with managerId, roots, the reports of every node
build_hierarchy(users, manager_map) ==
  LET ids == {users[i] : i \in 1..Len(users)}
      linked == LinkUsers([roots |-> <<>>, reports |-> [u \in UserIds |-> <<>>]],
                          users, manager_map, ids)
      sorted == UNION { Visited(linked.reports, linked.roots[k], Len(users))
                          : k \in 1..Len(linked.roots) }
  IN [users |-> [i \in 1..Len(users) |->
                   [id |-> users[i],
                    managerId |-> AssignedManager(manager_map, users[i])]],
      roots |-> linked.roots,
      reports |-> [u \in UserIds |->
                     IF u \in sorted THEN SortByName(linked.reports[u])
                     ELSE linked.reports[u]]]

NoTree == [users |-> <<>>, roots |-> <<>>, reports |-> <<>>]

InitHierarchy ==
  /\ \E users \in UserLists : \E manager_map \in ManagerMaps :
       graph = [pc |-> "build", user_ids |-> users,
                manager_map |-> manager_map, out |-> NoTree]
  /\ PassIdle
  /\ fs = NoFs /\ rt = NoRetry /\ sv = NoSnapshot /\ orch = NoMain
  /\ fn = NoCall /\ pool = NoPool

\* roots, flat_view = build_hierarchy(users, manager_map); the files
BuildHierarchy ==
  /\ graph.pc = "build"
  /\ graph' = [graph EXCEPT
                 !.pc = "built",
                 !.out = build_hierarchy(graph.user_ids, graph.manager_map)]
  /\ UNCHANGED <<sinkVars, conc, fs, rt, sv, orch, fn, pool>>

NextHierarchy == BuildHierarchy

SpecHierarchy == InitHierarchy /\ [][NextHierarchy]_vars

(* ------------------------------------------------------------------ *)
(* Strings as sequences of characters, and sanitize_folder_name       *)
(* ------------------------------------------------------------------ *)
\* length of the drawn part of a folder name
MaxNameLen == 3

Whitespace == {" ", "\t"}

\* the characters of r'[<>:"/\\|?*]'
ForbiddenChars == {"<", ">", ":", "\"", "/", "\\", "|", "?", "*"}

\* str.strip(chars): without the leading and trailing characters of chars
RECURSIVE LStrip(_, _)
LStrip(s, chars) ==
  IF s # <<>> /\ Head(s) \in chars THEN LStrip(Tail(s), chars) ELSE s

RECURSIVE RStrip(_, _)
RStrip(s, chars) ==
  IF s # <<>> /\ s[Len(s)] \in chars
    THEN RStrip(SubSeq(s, 1, Len(s) - 1), chars) ELSE s

StripChars(s, chars) == RStrip(LStrip(s, chars), chars)

\* re.sub of one character class by a character, character by character
SubChars(s, class, by) ==
  [i \in 1..Len(s) |-> IF s[i] \in class THEN by ELSE s[i]]

\* re.sub(class+, by): every maximal run of characters of class becomes by
RECURSIVE SubRuns(_, _, _)
SubRuns(s, class, by) ==
  IF s = <<>> THEN <<>>
  ELSE IF Head(s) \in class
         THEN <<by>> \o SubRuns(LStrip(s, class), class, by)
         ELSE <<Head(s)>> \o SubRuns(Tail(s), class, by)

Unnamed == <<"U", "n", "n", "a", "m", "e", "d">>

sanitize_folder_name(name, max_len) ==
  IF name = <<>> \/ StripChars(name, Whitespace) = <<>> THEN Unnamed
  ELSE LET n1 == SubChars(name, ForbiddenChars, "_")
           n2 == SubRuns(n1, Whitespace \cup {"_"}, "_")
       IN StripChars(SubSeq(n2, 1, Min(max_len, Len(n2))), {"_"})

\* folder names: nothing or six letters, then up to MaxNameLen characters
NameChars == {"a", " ", "/", "_", "?"}

NameHeads == { <<>>, <<"a", "a", "a", "a", "a", "a">> }

NameTails == UNION { [1..n -> NameChars] : n \in 0..MaxNameLen }

InitSanitize ==
  /\ \E h \in NameHeads : \E t \in NameTails : \E max_len \in {7, 100} :
       fn = [pc |-> "call", name |-> h \o t, max_len |-> max_len,
             out |-> <<>>]
  /\ PassIdle
  /\ fs = NoFs /\ rt = NoRetry /\ sv = NoSnapshot /\ orch = NoMain
  /\ graph = NoGraph /\ pool = NoPool

Sanitize ==
  /\ fn.pc = "call"
  /\ fn' = [fn EXCEPT !.pc = "done",
                      !.out = sanitize_folder_name(fn.name, fn.max_len)]
  /\ UNCHANGED <<sinkVars, conc, fs, rt, sv, orch, graph, pool>>

NextSanitize == Sanitize

SpecSanitize == InitSanitize /\ [][NextSanitize]_vars

(* ------------------------------------------------------------------ *)
(* select_views_for_plan, on view names as sequences of characters    *)
(* ------------------------------------------------------------------ *)
\* views of the upstream database in one call
MaxViews == 3

\* str.lower() on the letters of the model
LowerChar(c) ==
  CASE c = "A" -> "a"
    [] c = "B" -> "b"
    [] c = "C" -> "c"
    [] c = "D" -> "d"
    [] c = "E" -> "e"
    [] c = "F" -> "f"
    [] c = "G" -> "g"
    [] c = "H" -> "h"
    [] c = "I" -> "i"
    [] c = "J" -> "j"
    [] c = "K" -> "k"
    [] c = "L" -> "l"
    [] c = "M" -> "m"
    [] c = "N" -> "n"
    [] c = "O" -> "o"
    [] c = "P" -> "p"
    [] c = "Q" -> "q"
    [] c = "R" -> "r"
    [] c = "S" -> "s"
    [] c = "T" -> "t"
    [] c = "U" -> "u"
    [] c = "V" -> "v"
    [] c = "W" -> "w"
    [] c = "X" -> "x"
    [] c = "Y" -> "y"
    [] c = "Z" -> "z"
    [] OTHER -> c

LowerStr(s) == [i \in 1..Len(s) |-> LowerChar(s[i])]

\* string.punctuation (without the grave accent, which no name here holds)
Punctuation ==
  {"!", "\"", "#", "$", "%", "&", "'", "(", ")", "*", "+", ",", "-", ".", "/", ":", ";", "<", "=", ">", "?", "@", "[", "\\", "]", "^", "_", "{", "|", "}", "~"}

\* n in s
Contains(n, s) ==
  \E i \in 0..(Len(s) - Len(n)) : SubSeq(s, i + 1, i + Len(n)) = n

\* s.startswith(p)
StartsWith(s, p) == Len(p) <= Len(s) /\ SubSeq(s, 1, Len(p)) = p

\* " ".join(s.split())
JoinSplit(s) == StripChars(SubRuns(s, Whitespace, " "), Whitespace)

\* _normalize: lower case, punctuation to spaces, whitespace collapsed
normalize(s) == JoinSplit(SubChars(LowerStr(s), Punctuation, " "))

\* _leaf: the last part of the stripped name split on runs of \ and /
RECURSIVE LastPart(_)
LastPart(s) ==
  IF s = <<>> \/ s[Len(s)] \in {"\\", "/"} THEN <<>>
  ELSE LastPart(SubSeq(s, 1, Len(s) - 1)) \o <<s[Len(s)]>>

leaf(name) == StripChars(LastPart(StripChars(name, Whitespace)), Whitespace)

EXCLUDE_PREFIXES ==
  { <<".", ".", "a", "d", "m", "i", "n">>,
    <<"*", "h", "e", "l", "p">>,
    <<"*", "a", "i", "d", "e">>,
    <<"(", "l", "o", "o", "k", "u", "p">> }

EnglishMark == <<"e", "n", "g", "l", "i", "s", "h", " ", "/", " ", "a", "n", "g", "l", "a", "i", "s">>

\* is_excluded: the lowercased, stripped name starts with an excluded prefix
is_excluded(vname) ==
  \E p \in EXCLUDE_PREFIXES :
    StartsWith(StripChars(LowerStr(vname), Whitespace), p)

\* current_view_name is None
NoName == <<"<None>">>

\* mutant of prefer: every later match replaces the chosen view
prefer_Always(current_view_name, candidate_view_name) == TRUE

\* prefer: nothing chosen yet, or the candidate is an English view and the
\* chosen one is not
prefer(current_view_name, candidate_view_name) ==
  IF current_view_name = NoName THEN TRUE
  ELSE /\ ~Contains(EnglishMark, LowerStr(current_view_name))
       /\ Contains(EnglishMark, LowerStr(candidate_view_name))

\* the needles of a canonical name: from its override when there is one,
\* else CONTAINS_MAP.get(canon, [canon.lower()]); each with its whitespace
\* collapsed, the empty ones dropped
NeedlesFor(canon, override_raw) ==
  LET needles == IF override_raw # <<>>
                   THEN <<normalize(override_raw), LowerStr(override_raw)>>
                   ELSE <<LowerStr(canon)>>
      cleaned == [i \in 1..Len(needles) |-> JoinSplit(needles[i])]
  IN SelectSeq(cleaned, LAMBDA n : n # <<>>)

\* match = any(n in full_norm or n in leaf_norm or n in full_raw.lower()
\*             or n in leaf_raw.lower() for n in needles)
ViewMatches(vname, needles) ==
  \E k \in 1..Len(needles) :
    \/ Contains(needles[k], normalize(vname))
    \/ Contains(needles[k], normalize(leaf(vname)))
    \/ Contains(needles[k], LowerStr(vname))
    \/ Contains(needles[k], LowerStr(leaf(vname)))

\* the loop over decorated for one canonical name: the index of the chosen
\* view in all_views, 0 for None
RECURSIVE ChooseView(_, _, _, _)
ChooseView(chosen, all_views, needles, i) ==
  IF i > Len(all_views) THEN chosen
  ELSE ChooseView(
         IF ~is_excluded(all_views[i]) /\ ViewMatches(all_views[i], needles)
            /\ prefer(IF chosen = 0 THEN NoName ELSE all_views[chosen],
                      all_views[i])
           THEN i ELSE chosen,
         all_views, needles, i + 1)

\* select_views_for_plan: chosen per canonical name, and the targets
select_views_for_plan(all_views, canon_targets, overrides) ==
  LET chosen == [k \in 1..Len(canon_targets) |->
                   ChooseView(0, all_views,
                              NeedlesFor(canon_targets[k], overrides[k]), 1)]
  IN [chosen |-> chosen, targets |-> SelectSeq(chosen, LAMBDA v : v # 0)]

\* names of the views of the upstream database
ViewNames ==
  { <<"P", "e", "o", "p", "l", "e">>,
    <<"S", "t", "a", "f", "f">>,
    <<"(", "L", "o", "o", "k", "u", "p", ")", " ", "P", "e", "o", "p", "l", "e">>,
    <<" ", ".", ".", "A", "d", "m", "i", "n", " ", "P", "e", "o", "p", "l", "e">>,
    <<"P", "E", "O", "P", "L", "E", " ", "E", "n", "g", "l", "i", "s", "h", " ", "/", " ", "A", "n", "g", "l", "a", "i", "s">>,
    <<"H", "R", "\\", "E", "n", "g", "l", "i", "s", "h", " ", "/", " ", "A", "n", "g", "l", "a", "i", "s", " ", "P", "e", "o", "p", "l", "e">>,
    <<"B", "y", "-", "N", "a", "m", "e">> }

\* canon_targets of the plan and, for each, its regex_override or nothing
CanonTargets ==
  << <<"P", "e", "o", "p", "l", "e">>,
     <<"B", "y", " ", " ", "N", "a", "m", "e">>,
     <<"P", "a", "y", "r", "o", "l", "l">> >>

OverrideSets ==
  { << <<>>, <<>>, <<>> >>,
    << <<"S", "t", "a", "f", "f">>, <<>>, <<>> >> }

InitSelect ==
  /\ \E n \in 0..MaxViews : \E all_views \in [1..n -> ViewNames] :
       \E overrides \in OverrideSets :
         fn = [pc |-> "call", all_views |-> all_views,
               overrides |-> overrides,
               out |-> [chosen |-> <<>>, targets |-> <<>>]]
  /\ PassIdle
  /\ fs = NoFs /\ rt = NoRetry /\ sv = NoSnapshot /\ orch = NoMain
  /\ graph = NoGraph /\ pool = NoPool

SelectViews ==
  /\ fn.pc = "call"
  /\ fn' = [fn EXCEPT !.pc = "done",
                      !.out = select_views_for_plan(fn.all_views, CanonTargets,
                                                    fn.overrides)]
  /\ UNCHANGED <<sinkVars, conc, fs, rt, sv, orch, graph, pool>>

NextSelect == SelectViews

SpecSelect == InitSelect /\ [][NextSelect]_vars

(* ------------------------------------------------------------------ *)
(* The threaded extractor (extract-prod-domino.py): __main__ opens    *)
(* one session, selects the target views and submits process_view for *)
(* each to a ThreadPoolExecutor. pool.handles is the set of handles   *)
(* of the object bridge, each with the session it was obtained under  *)
(* and the threads that have called it.                               *)
(* ------------------------------------------------------------------ *)
\* target views of the database, and entries of a view
NumViews == 2

MaxEntries == 2

\* the threads of the executor (one per task at most); thread 0 is the
\* thread of __main__
PoolThreads == 1..NumViews

\* a handle obtained under session by thread t
NewHandle(handles, id, kind, session, t) ==
  handles \cup {[id |-> id, kind |-> kind, session |-> session, threads |-> {t}]}

\* thread t calls a method or reads a property of the handle id
UseHandle(handles, id, t) ==
  {IF h.id = id THEN [h EXCEPT !.threads = @ \cup {t}] ELSE h : h \in handles}

InitPool ==
  /\ pool = [pc |-> "start", handles |-> {}, tasks |-> <<>>]
  /\ PassIdle
  /\ fs = NoFs /\ rt = NoRetry /\ sv = NoSnapshot /\ orch = NoMain
  /\ graph = NoGraph /\ fn = NoCall

\* SESSION, ..., db = open_database(PREF_SERVER, NSF_PATH)
PoolOpen ==
  /\ pool.pc = "start"
  /\ pool' = [pool EXCEPT
       !.pc = "opened",
       !.handles = NewHandle(NewHandle(@, <<"session">>, "session", "S1", 0),
                             <<"db">>, "db", "S1", 0)]
  /\ UNCHANGED <<sinkVars, conc, fs, rt, sv, orch, graph, fn>>

\* views_to_process = [v for v in db.Views if ... v.Name ...], then one
\* executor.submit(process_view, view, OUTPUT_DIR) per view; sizes[k] is the
\* number of entries of view k
PoolSelect(n, sizes) ==
  /\ pool.pc = "opened"
  /\ pool' = [pool EXCEPT
       !.pc = "running",
       !.handles = UseHandle(@, <<"db">>, 0)
                     \cup {[id |-> <<"view", k>>, kind |-> "view",
                            session |-> "S1", threads |-> {0}]
                           : k \in 1..n},
       !.tasks = [k \in 1..n |->
                    [pc |-> "queued", thread |-> 0, size |-> sizes[k],
                     entry |-> 0]]]
  /\ UNCHANGED <<sinkVars, conc, fs, rt, sv, orch, graph, fn>>

ThreadIdle(t) == \A k \in DOMAIN pool.tasks :
                   ~(pool.tasks[k].pc = "run" /\ pool.tasks[k].thread = t)

\* process_view up to the loop, on thread t: view.Name, view.AllEntries,
\* entries.GetFirstEntry()
WorkerStart(t, k) ==
  /\ pool.pc = "running"
  /\ pool.tasks[k].pc = "queued"
  /\ ThreadIdle(t)
  /\ LET h1 == UseHandle(pool.handles, <<"view", k>>, t)
         h2 == NewHandle(h1, <<"entries", k>>, "entries", "S1", t)
         h3 == IF pool.tasks[k].size > 0
                 THEN NewHandle(h2, <<"entry", k, 1>>, "entry", "S1", t)
                 ELSE h2
     IN pool' = [pool EXCEPT !.handles = h3,
                             !.tasks[k] = [@ EXCEPT !.pc = "run",
                                                    !.thread = t,
                                                    !.entry = 1]]
  /\ UNCHANGED <<sinkVars, conc, fs, rt, sv, orch, graph, fn>>

\* one turn of the while loop: entries.GetNextEntry(entry), entry.IsDocument,
\* entry.Document, extract_document(doc, final_dir)
WorkerEntry(k) ==
  /\ pool.pc = "running"
  /\ pool.tasks[k].pc = "run"
  /\ pool.tasks[k].entry <= pool.tasks[k].size
  /\ LET t  == pool.tasks[k].thread
         j  == pool.tasks[k].entry
         h1 == UseHandle(UseHandle(pool.handles, <<"entries", k>>, t),
                         <<"entry", k, j>>, t)
         h2 == IF j < pool.tasks[k].size
                 THEN NewHandle(h1, <<"entry", k, j + 1>>, "entry", "S1", t)
                 ELSE h1
         h3 == NewHandle(h2, <<"doc", k, j>>, "doc", "S1", t)
     IN pool' = [pool EXCEPT !.handles = h3, !.tasks[k].entry = j + 1]
  /\ UNCHANGED <<sinkVars, conc, fs, rt, sv, orch, graph, fn>>

\* while entry: ends; process_view returns
WorkerDone(k) ==
  /\ pool.pc = "running"
  /\ pool.tasks[k].pc = "run"
  /\ pool.tasks[k].entry > pool.tasks[k].size
  /\ pool' = [pool EXCEPT !.tasks[k].pc = "done"]
  /\ UNCHANGED <<sinkVars, conc, fs, rt, sv, orch, graph, fn>>

\* concurrent.futures.wait(futures) returns
PoolDone ==
  /\ pool.pc = "running"
  /\ \A k \in DOMAIN pool.tasks : pool.tasks[k].pc = "done"
  /\ pool' = [pool EXCEPT !.pc = "done"]
  /\ UNCHANGED <<sinkVars, conc, fs, rt, sv, orch, graph, fn>>

NextPool ==
  \/ PoolOpen
  \/ \E n \in 0..NumViews : \E sizes \in [1..n -> 0..MaxEntries] :
       PoolSelect(n, sizes)
  \/ \E t \in PoolThreads : \E k \in DOMAIN pool.tasks : WorkerStart(t, k)
  \/ \E k \in DOMAIN pool.tasks : WorkerEntry(k)
  \/ \E k \in DOMAIN pool.tasks : WorkerDone(k)
  \/ PoolDone

SpecPool == InitPool /\ [][NextPool]_vars

(* ------------------------------------------------------------------ *)
(* The directory export: fetch_all_users, one HTTP attempt per step.  *)
(* graph.top is the $top of the URL being requested; the nextLink of  *)
(* a page is the directory's and repeats the query of the request it  *)
(* answers.                                                           *)
(* ------------------------------------------------------------------ *)
\* pages of users the directory holds at most
MaxPages == 2

NotSent == [top |-> 0, page_size |-> 0]

\* graph_get(s, url, token) before its first attempt, url carrying $top = top
PageRequest(limiter, top, pages) ==
  [pc |-> "request", limiter |-> limiter, requests |-> pages + 1, delay |-> 1,
   seen |-> <<>>, last |-> NoResult, before |-> limiter, result |-> NoResult,
   top |-> top, pages |-> pages, sent |-> NotSent]

\* base = f"{GRAPH_ROOT}/users?$select={fields}&$top={limiter.page_size}"
InitFetch ==
  /\ \E ps \in {50, 100} :
       graph = PageRequest(AdaptiveLimiter(ps), AdaptiveLimiter(ps).page_size, 0)
  /\ PassIdle
  /\ fs = NoFs /\ rt = NoRetry /\ sv = NoSnapshot /\ orch = NoMain
  /\ fn = NoCall /\ pool = NoPool

\* one attempt of graph_get(s, url, token): the request is sent with the
\* $top of url, and with_backoff handles the response
FetchAttempt(resp) ==
  /\ graph.pc = "request"
  /\ graph' = with_backoff(
                [graph EXCEPT !.sent = [top |-> graph.top,
                                        page_size |-> graph.limiter.page_size]],
                resp)
  /\ UNCHANGED <<sinkVars, conc, fs, rt, sv, orch, fn, pool>>

\* url = data.get("@odata.nextLink"); the loop goes on with it after
\* time.sleep(limiter.page_sleep), or ends and the users are returned
FetchNextPage(more) ==
  /\ graph.pc = "returned"
  /\ graph' = IF more /\ graph.pages + 1 < MaxPages
                THEN PageRequest(graph.limiter, graph.top, graph.pages + 1)
                ELSE [graph EXCEPT !.pc = "done", !.pages = @ + 1]
  /\ UNCHANGED <<sinkVars, conc, fs, rt, sv, orch, fn, pool>>

NextFetch ==
  \/ \E resp \in Responses : FetchAttempt(resp)
  \/ \E more \in BOOLEAN : FetchNextPage(more)

SpecFetch == InitFetch /\ [][NextFetch]_vars

(* ------------------------------------------------------------------ *)
(* The suggested regex_override of a view name, stored and used by    *)
(* the next select_views_for_plan                                     *)
(* ------------------------------------------------------------------ *)
\* s.replace(old, new) for a single character old
RECURSIVE ReplaceChar(_, _, _)
ReplaceChar(s, old, new) ==
  IF s = <<>> THEN <<>>
  ELSE (IF Head(s) = old THEN new ELSE <<Head(s)>>)
         \o ReplaceChar(Tail(s), old, new)

\* the characters of the class [.^$*+?{}\[\]\\|()]
RegexMeta ==
  {".", "^", "$", "*", "+", "?", "{", "}", "[", "]", "\\", "|", "(", ")"}

\* re.sub(r'([.^$*+?{}\[\]\\|()])', r'\\\1', s)
RECURSIVE EscapeMeta(_)
EscapeMeta(s) ==
  IF s = <<>> THEN <<>>
  ELSE (IF Head(s) \in RegexMeta THEN <<"\\", Head(s)>> ELSE <<Head(s)>>)
         \o EscapeMeta(Tail(s))

\* _escape_regex_literal_for_mysql
escape_regex_literal_for_mysql(s) ==
  LET esc_sql   == ReplaceChar(ReplaceChar(s, "\\", <<"\\", "\\">>),
                               "'", <<"'", "'">>)
      esc_regex == EscapeMeta(esc_sql)
  IN <<"(", "?", "i", ")", "^">> \o esc_regex \o <<"$">>

\* the value MySQL stores for the quoted literal '...' of the UPDATE that
\* _fmt_sql_update_regex prints: \x stands for x and '' for '
RECURSIVE SqlLiteralValue(_)
SqlLiteralValue(s) ==
  IF s = <<>> THEN <<>>
  ELSE IF Len(s) >= 2 /\ (Head(s) = "\\" \/ (Head(s) = "'" /\ s[2] = "'"))
    THEN <<s[2]>> \o SqlLiteralValue(SubSeq(s, 3, Len(s)))
    ELSE <<Head(s)>> \o SqlLiteralValue(Tail(s))

\* the view lists that hold a view called name
ViewListsWith(name) ==
  UNION { {vs \in [1..n -> ViewNames] : \E i \in 1..n : vs[i] = name}
          : n \in 1..MaxViews }

\* the suggestion for the view called name is stored for the first canonical
\* name of the plan, by running the printed UPDATE or by storing the pattern
\* as printed
InitPin ==
  /\ \E name \in ViewNames : \E all_views \in ViewListsWith(name) :
       \E stored \in { escape_regex_literal_for_mysql(name),
                       SqlLiteralValue(escape_regex_literal_for_mysql(name)) } :
         fn = [pc |-> "call", name |-> name, all_views |-> all_views,
               overrides |-> <<stored, <<>>, <<>>>>,
               out |-> [chosen |-> <<>>, targets |-> <<>>]]
  /\ PassIdle
  /\ fs = NoFs /\ rt = NoRetry /\ sv = NoSnapshot /\ orch = NoMain
  /\ graph = NoGraph /\ pool = NoPool

\* the next selection of the plan
PinSelect ==
  /\ fn.pc = "call"
  /\ fn' = [fn EXCEPT !.pc = "done",
                      !.out = select_views_for_plan(fn.all_views, CanonTargets,
                                                    fn.overrides)]
  /\ UNCHANGED <<sinkVars, conc, fs, rt, sv, orch, graph, pool>>

NextPin == PinSelect

SpecPin == InitPin /\ [][NextPin]_vars

(* ------------------------------------------------------------------ *)
(* The checkpointed directory export (entra_heirarchy.py): main run   *)
(* several times over the same users, with manager_checkpoint.json    *)
(* kept between the runs. graph.last keeps, for every user, the       *)
(* answer to the last sub-request ever made for it.                   *)
(* ------------------------------------------------------------------ *)
\* runs of the export
MaxExports == 2

\* the users fetched by every run
ExportUsers == <<"u1", "u2">>

\* load_checkpoint(): the content of the file, {} when there is none
load_manager_checkpoint(file) == file

\* existing.update(partial); save_checkpoint(existing)
save_manager_checkpoint(existing, partial) ==
  [u \in UserIds |-> IF partial[u] # Unset THEN partial[u] ELSE existing[u]]

\* pending = [u["id"] for u in users if u["id"] not in existing]
PendingIds(users, existing) ==
  SelectSeq(users, LAMBDA u : existing[u] = Unset)

InitExport ==
  /\ graph = [pc |-> "main", user_ids |-> <<>>, queue |-> <<>>,
              manager_map |-> [u \in UserIds |-> Unset],
              limiter |-> AdaptiveLimiter(100),
              sent |-> [u \in UserIds |-> 0],
              last |-> [u \in UserIds |-> "none"],
              unanswered |-> {}, chunk_len |-> 0,
              file |-> [u \in UserIds |-> Unset],
              existing |-> [u \in UserIds |-> Unset],
              exports |-> 0]
  /\ PassIdle
  /\ fs = NoFs /\ rt = NoRetry /\ sv = NoSnapshot /\ orch = NoMain
  /\ fn = NoCall /\ pool = NoPool

\* main up to the call of batch_get_managers: existing, pending, the queue
ExportStart ==
  /\ graph.pc = "main"
  /\ graph.exports < MaxExports
  /\ LET existing == load_manager_checkpoint(graph.file)
         pending  == PendingIds(ExportUsers, existing)
     IN graph' = [graph EXCEPT
          !.pc = IF pending = <<>> THEN "main" ELSE "batch",
          !.exports = @ + 1,
          !.existing = existing,
          !.user_ids = pending,
          !.queue = [i \in 1..Len(pending) |-> <<pending[i], MAX_ATTEMPTS>>],
          !.manager_map = [u \in UserIds |-> Unset],
          !.limiter = AdaptiveLimiter(100),
          !.sent = [u \in UserIds |-> 0],
          !.unanswered = {}]
  /\ UNCHANGED <<sinkVars, conc, fs, rt, sv, orch, fn, pool>>

\* one iteration of "while queue" of batch_get_managers
ExportBatch(outcomes) ==
  /\ graph.pc = "batch"
  /\ graph.queue # <<>>
  /\ graph' = batch_iteration(graph, outcomes)
  /\ UNCHANGED <<sinkVars, conc, fs, rt, sv, orch, fn, pool>>

\* graph_post_json raises: main ends with the exception, nothing is saved
ExportPostRaises ==
  /\ graph.pc = "batch"
  /\ graph.queue # <<>>
  /\ graph' = [graph EXCEPT !.pc = "main", !.queue = <<>>]
  /\ UNCHANGED <<sinkVars, conc, fs, rt, sv, orch, fn, pool>>

\* batch_get_managers returns; existing.update(partial);
\* save_checkpoint(existing)
ExportSave ==
  /\ graph.pc = "batch"
  /\ graph.queue = <<>>
  /\ graph' = [graph EXCEPT
                 !.pc = "main",
                 !.file = save_manager_checkpoint(graph.existing,
                                                  graph.manager_map)]
  /\ UNCHANGED <<sinkVars, conc, fs, rt, sv, orch, fn, pool>>

NextExport ==
  \/ ExportStart
  \/ \E outcomes \in [1..BatchLimit -> ItemOutcomes] : ExportBatch(outcomes)
  \/ ExportPostRaises
  \/ ExportSave

SpecExport == InitExport /\ [][NextExport]_vars

(* ------------------------------------------------------------------ *)
(* Properties of the checkpointed pass (specification Spec)           *)
(* ------------------------------------------------------------------ *)
\* the committed checkpoint attests the running snapshot up to index hi
CheckpointPast(hi) ==
  LET c == load_checkpoint(con.committed)
  IN c # NoCkpt /\ c.snapshot_sig = snapshot_sig /\ c.next_index >= hi

\* the batches of the running pass: batch j covers positions lo+1 .. hi
BatchLo(j) == hist.start + j * BatchSize
BatchHi(j) == Min(BatchLo(j) + BatchSize, total)

\* C1: in every committed state of a pass, the stored next_index has advanced
\* past a batch if and only if all document writes of that batch are committed
C1_CheckpointInBatchTransaction ==
  pc # "idle" =>
    \A j \in 0..total :
      BatchLo(j) < total =>
        (CheckpointPast(BatchHi(j))
           <=> (BatchLo(j) + 1 .. BatchHi(j)) \subseteq hist.durable)

\* the sink: the committed tables and the blob store
Sink(st) == [tables |-> st.committed, ai |-> st.ai, cas |-> st.cas]

\* C2: a pass stopped at batch boundaries and resumed over the same snapshot
\* ends in the sink state of one uninterrupted pass
C2_ResumeEqualsUninterrupted ==
  (pc = "idle" /\ hist.completed /\ hist.clean) =>
    Sink(con) = Sink(process_view_into_db(hist.session_con, snapshot))

\* a pass was stopped after its first checkpoint and the resumed pass completed
C2_Witness ==
  /\ pc = "idle" /\ hist.completed /\ hist.clean
  /\ hist.start > 0 /\ hist.start < total
  /\ hist.session_con.committed.etl_checkpoints = {}
  /\ Cardinality(con.committed.documents) >= 3

\* the running pass found a stored checkpoint with the snapshot's signature
Matched ==
  /\ runs > 0
  /\ hist.start_ckpt # NoCkpt
  /\ hist.start_ckpt.snapshot_sig = snapshot_sig

\* C3: with a checkpoint of the same signature, only positions >= the stored
\* next_index are fetched; after a completed pass a re-run fetches nothing,
\* writes nothing and leaves the checkpoint as it is
C3_FetchOnlyFromCheckpoint ==
  Matched =>
    /\ \A i \in hist.fetched : i - 1 >= hist.start_ckpt.next_index
    /\ hist.start_ckpt.next_index = total =>
         /\ hist.fetched = {}
         /\ con.db = hist.run_con.db
         /\ con.committed = hist.run_con.committed
         /\ con.ai = hist.run_con.ai

\* a resumed pass fetched the rest of the snapshot and completed
C3_Witness ==
  /\ Matched /\ pc = "idle" /\ hist.completed
  /\ hist.start_ckpt.next_index > 0
  /\ hist.fetched = (hist.start_ckpt.next_index + 1) .. total
  /\ hist.fetched # {}

\* the running pass found a stored checkpoint with another signature
Drifted ==
  /\ runs > 0
  /\ hist.start_ckpt # NoCkpt
  /\ hist.start_ckpt.snapshot_sig # snapshot_sig

DocUnids(db) == {r.unid : r \in db.documents}

OneRowPerUnid(db) == Cardinality(db.documents) = Cardinality(DocUnids(db))

Found(unids) == {u \in unids : GetDocumentByUNID(u) # NoDoc}

LastUnid == hist.log[Len(hist.log)]

LastDoc == GetDocumentByUNID(LastUnid)

\* the connection before the last upsert, and before the first
Before == hist.run_con.db
Initial == hist.session_con

DocTables(db) ==
  [documents |-> db.documents, item_values |-> db.item_values,
   doc_item_values |-> db.doc_item_values, attachments |-> db.attachments]

\* C5: upserting the same unchanged document a second time leaves Documents,
\* ItemValues, DocItemValues and Attachments as the first upsert left them
C5_ReupsertIdempotent ==
  (Len(hist.log) >= 2 /\ hist.log[Len(hist.log) - 1] = LastUnid) =>
    DocTables(con.db) = DocTables(Before)

\* a document with stored items and an attachment was upserted twice in a row
C5_Witness ==
  /\ hist.log = <<"U1", "U1">>
  /\ \E r \in con.db.doc_item_values :
       r.unid = "U1" /\ r.item_id = ItemRow(con.db, "subject").id
  /\ ItemRow(con.db, "subject").notes_filter = 1
  /\ \E a \in con.db.attachments : a.unid = "U1"

\* the SQL state with every auto-generated id replaced by the row it names
ItemNameOf(db, id) == (CHOOSE r \in db.items : r.id = id).name_lc

CanonAttachment(r) ==
  [unid |-> r.unid, item_name |-> r.item_name, kind |-> r.kind,
   filename |-> r.filename, sha256 |-> r.sha256,
   storage_path |-> r.storage_path]

CanonAttachmentId(db, id) ==
  IF id = Null THEN {}
  ELSE {CanonAttachment(r) : r \in {a \in db.attachments : a.id = id}}

CanonItemValue(db, r) ==
  [item |-> ItemNameOf(db, r.item_id), val_kind |-> r.val_kind,
   v_string |-> r.v_string, v_text |-> r.v_text, v_number |-> r.v_number,
   v_datetime |-> r.v_datetime, v_bool |-> r.v_bool,
   attachment |-> CanonAttachmentId(db, r.attachment_id)]

CanonDb(db) ==
  [documents |-> db.documents,
   items |-> {[name |-> r.name, name_lc |-> r.name_lc,
               notes_filter |-> r.notes_filter] : r \in db.items},
   item_values |-> {CanonItemValue(db, r) : r \in db.item_values},
   doc_item_values |->
     {[unid |-> l.unid, item |-> ItemNameOf(db, l.item_id),
       val_order |-> l.val_order,
       value |-> {CanonItemValue(db, r) :
                    r \in {v \in db.item_values : v.id = l.item_value_id}}]
        : l \in db.doc_item_values},
   attachments |-> {CanonAttachment(r) : r \in db.attachments}]

\* two upserts by one writer, the second after the first returned or raised
UpsertTwo(st, d1, d2) ==
  LET st1 == [upsert_document_from_notes(st, d1) EXCEPT !.err = FALSE]
  IN [upsert_document_from_notes(st1, d2) EXCEPT !.err = FALSE]

\* C6: upserting A then B gives the SQL state of upserting B then A, up to the
\* auto-generated ids
C6_UpsertOrderIndependent ==
  (Len(hist.log) = 2 /\ hist.log[1] # hist.log[2]) =>
    CanonDb(con.db)
      = CanonDb(UpsertTwo(Initial, GetDocumentByUNID(hist.log[2]),
                          GetDocumentByUNID(hist.log[1])).db)

\* the DocItemValue rows of document unid for the item called name
Links(db, unid, name) ==
  {r \in db.doc_item_values :
     r.unid = unid /\ ItemKnown(db, name) /\ r.item_id = ItemRow(db, name).id}

\* the values coerce_insert_item_values is given for an item
NumValues(item) ==
  IF item.rich THEN 1 ELSE IF item.novals THEN 0 ELSE Len(item.vals)

\* C7: an upsert writes no DocItemValue row for an item the catalog lists with
\* notes_filter other than 1 (NULL included), and one row per value for an item
\* the catalog lists with notes_filter = 1
C7_FilterDecidesLinks ==
  hist.log # <<>> =>
    \A k \in 1..Len(LastDoc.items) :
      LET item == LastDoc.items[k]
      IN ItemKnown(Before, item.name) =>
           IF ItemRow(Before, item.name).notes_filter = 1
             THEN {r.val_order : r \in Links(con.db, LastUnid, item.name)}
                    = 0 .. (NumValues(item) - 1)
             ELSE Links(con.db, LastUnid, item.name)
                    = Links(Before, LastUnid, item.name)

\* C8: an item unknown to the catalog when the upserts of a pass begin has
\* DocItemValue rows for every upserted document that carries values of it
C8_UnknownItemStoredForEveryDoc ==
  \A u \in Range(hist.log) :
    LET doc == GetDocumentByUNID(u)
    IN \A k \in 1..Len(doc.items) :
         (~ItemKnown(Initial.db, doc.items[k].name)
            /\ NumValues(doc.items[k]) > 0)
           => Links(con.db, u, doc.items[k].name) # {}

\* no two ItemValue rows agree on the dedup key, nor on every typed column
ItemValuesUnique(db) ==
  \A r1, r2 \in db.item_values :
    r1 # r2 =>
      /\ ~(r1.item_id = r2.item_id /\ r1.val_kind = r2.val_kind
           /\ r1.val_hash = r2.val_hash)
      /\ ~(r1.item_id = r2.item_id /\ r1.val_kind = r2.val_kind
           /\ r1.v_string = r2.v_string /\ r1.v_text = r2.v_text
           /\ r1.v_number = r2.v_number /\ r1.v_datetime = r2.v_datetime
           /\ r1.v_bool = r2.v_bool /\ r1.attachment_id = r2.attachment_id)

\* C10: under a single writer the ItemValue rows stay unique on (item_id,
\* val_kind, val_hash) and on the typed columns with attachment_id, and a row
\* once written is neither changed nor removed
C10_ItemValuesUniqueAppendOnly ==
  /\ [](ItemValuesUnique(con.db))
  /\ [][con.db.item_values \subseteq con'.db.item_values]_vars

\* three upserts after which two documents share one ItemValue row, an item
\* holds several values and a datetime value is stored
C10_Witness ==
  /\ Len(hist.log) = 3 /\ LastUnid = "U3"
  /\ \E l1, l2 \in con.db.doc_item_values :
       l1.unid # l2.unid /\ l1.item_value_id = l2.item_value_id
  /\ \E r1, r2 \in con.db.item_values :
       r1 # r2 /\ r1.item_id = r2.item_id
  /\ \E r \in con.db.item_values :
       r.val_kind = "datetime" /\ r.v_datetime = <<5, 0>>

(* ------------------------------------------------------------------ *)
(* Properties of concurrent writers (specification SpecConc)          *)
(* ------------------------------------------------------------------ *)
\* C9: when two writers have called get_or_create_item_value for the same
\* value and both are done, at most one ItemValue row was created for it,
\* neither writer failed on the unique constraint, and both hold the id of
\* the same row
C9_ConcurrentWritersShareRow ==
  \A w1, w2 \in Writers :
    ( /\ w1 # w2
      /\ conc.tx[w1].pc = "done" /\ conc.tx[w2].pc = "done"
      /\ conc.tx[w1].p = conc.tx[w2].p )
    => /\ Cardinality({r \in con.committed.item_values \ Initial.db.item_values :
                         MatchesItemValue(r, ConcItemId, conc.tx[w1].p)}) <= 1
       /\ ~conc.tx[w1].raised /\ ~conc.tx[w2].raised
       /\ conc.tx[w1].id # Null
       /\ conc.tx[w1].id = conc.tx[w2].id

(* ------------------------------------------------------------------ *)
(* Properties of attachments and the blob store                       *)
(* ------------------------------------------------------------------ *)
\* C11: in every committed state a document row has has_attachments = 1
\* exactly when an Attachments row with its UNID exists
C11_HasAttachmentsIffAttachment ==
  \A d \in con.committed.documents :
    d.has_attachments = 1
      <=> \E a \in con.committed.attachments : a.unid = d.unid

\* the (sha256, unid, filename) of the embedded objects the upserted documents
\* carry
AttachmentKey(r) == <<r.sha256, r.unid, r.filename>>

ExtractedKeys ==
  UNION { {AttachmentKey(m) :
             m \in Range(extract_embedded_attachments_from_doc(
                           {}, GetDocumentByUNID(u)).out)}
          : u \in Range(hist.log) }

\* C12: identical bytes, stored twice from one document or from different
\* documents under different filenames, make one CAS blob at one relpath
\* (cas_store answers the same digest and relpath again), and Attachments
\* holds one row per distinct (sha256, unid, filename)
C12_OneBlobManyAttachments ==
  /\ \A f1, f2 \in con.cas : f1.bytes = f2.bytes => f1 = f2
  /\ \A f \in con.cas :
       cas_store(con.cas, f.bytes)
         = [cas |-> con.cas, sha |-> sha256_file(f.bytes), rel |-> f.path]
  /\ \A a \in con.db.attachments :
       /\ a.storage_path = CasRel(a.sha256)
       /\ \E f \in con.cas :
            f.path = a.storage_path /\ sha256_file(f.bytes) = a.sha256
  /\ {AttachmentKey(a) : a \in con.db.attachments} = ExtractedKeys
  /\ Cardinality(con.db.attachments) = Cardinality(ExtractedKeys)

\* the same bytes were stored twice from U1 and once from U2 under another
\* filename: one blob, two Attachments rows with its digest
C12_Witness ==
  /\ Len(hist.log) = 3
  /\ hist.log[1] = "U1" /\ hist.log[2] = "U1" /\ hist.log[3] = "U2"
  /\ Cardinality(con.cas) = 1
  /\ \E a1, a2 \in con.db.attachments :
       /\ a1.unid = "U1" /\ a2.unid = "U2"
       /\ a1.sha256 = a2.sha256 /\ a1.filename # a2.filename
       /\ a1.storage_path = a2.storage_path

\* C13: under every interleaving of concurrent cas_store callers no caller
\* fails, and a file visible at a final CAS path always holds the complete
\* content its name is the digest of
C13_ConcurrentCasStoreSafe ==
  /\ \A c \in Callers : fs.callers[c].pc # "raised"
  /\ \A e \in fs.names :
       \A b \in CasContents :
         e.path = CasDest(b) =>
           /\ fs.inodes[e.ino].bytes = b
           /\ fs.inodes[e.ino].chunks = AllChunks

(* ------------------------------------------------------------------ *)
(* Properties of the retry wrappers (specification SpecRetry)         *)
(* ------------------------------------------------------------------ *)
\* the first invocation among the RETRY_COM_TRIES first whose outcome is not
\* a transient error, or 0 when all of them are transient errors
FirstSettled(o) ==
  IF \E k \in 1..RETRY_COM_TRIES : o[k] # "transient"
    THEN CHOOSE k \in 1..RETRY_COM_TRIES :
           o[k] # "transient" /\ \A j \in 1..(k - 1) : o[j] = "transient"
    ELSE 0

\* 1.5, 3, 6, 12 and 24 seconds
Backoff == <<15, 30, 60, 120, 240>>

\* C14: retry invokes fn at most 6 times, returns at the first success,
\* re-raises a non-transient error straight after the invocation that raised
\* it, re-raises the last error after 6 transient failures, and sleeps 1.5, 3,
\* 6, 12 and 24 seconds before tries 2 to 6
C14_RetryEnvelope ==
  rt.pc # "start" =>
    LET k == FirstSettled(rt.outcomes)
        r == rt.retry
    IN /\ r.calls <= 6
       /\ k # 0 =>
            /\ r.calls = k
            /\ r.sleeps = SubSeq(Backoff, 1, k - 1)
            /\ r.result = IF rt.outcomes[k] = "ok" THEN "returned" ELSE "raised"
            /\ r.raised_at = IF rt.outcomes[k] = "ok" THEN 0 ELSE k
       /\ k = 0 =>
            /\ r.calls = 6
            /\ r.sleeps = Backoff
            /\ r.result = "raised"
            /\ r.raised_at = 6

\* fn failed six times with a transient error
C14_Witness ==
  /\ rt.pc # "start"
  /\ FirstSettled(rt.outcomes) = 0
  /\ rt.retry.result = "raised" /\ rt.retry.calls = 6
  /\ Len(rt.retry.sleeps) = 5

\* C15: resilient_com_with_reopen invokes fn as often as retry, sleeps the
\* same delays, and reopens the database once before each re-invocation of fn
\* and at no other time
C15_ReopenSameEnvelope ==
  rt.pc # "start" =>
    /\ rt.reopen.calls = rt.retry.calls
    /\ rt.reopen.result = rt.retry.result
    /\ rt.reopen.sleeps = rt.retry.sleeps
    /\ rt.reopen.reopens = [i \in 1..(rt.reopen.calls - 1) |-> i]

\* the handle the last successful reopen_db returned before invocation i of fn
ReopenedHandle(r, i) ==
  Cardinality({j \in 1..(i - 1) : r.reopened[j]})

\* C16: after a transient failure of a fetch and a successful reopen_db, the
\* next attempt of the fetch and every later fetch use the handle the reopen
\* returned
C16_FetchUsesReopenedHandle ==
  /\ rt.pc # "start" =>
       \A i \in 2..rt.reopen.calls :
         ReopenedHandle(rt.reopen, i) # 0 =>
           rt.reopen.handles[i] = ReopenedHandle(rt.reopen, i)
  /\ rt.pc = "next" =>
       (rt.reopen.ctx.notes_db # Null => rt.later = rt.reopen.ctx.notes_db)

(* ------------------------------------------------------------------ *)
(* Properties of snapshot_view_entries (specification SpecSnapshot)   *)
(* ------------------------------------------------------------------ *)
IsPrefix(a, b) == Len(a) <= Len(b) /\ a = SubSeq(b, 1, Len(a))

\* C17: snapshot_view_entries terminates; a transient error restarts the
\* iteration from the first entry, at most 5 times; the next interrupting
\* error, or any other error, ends the snapshot with the entries captured so
\* far
C17_SnapshotTerminates ==
  /\ <>(sv.pc \in {"returned", "raised"})
  /\ [](sv.restarts <= 5)
  /\ [][ (sv.pc = "iter" /\ sv' # sv /\ Raises(sv'.last)) =>
           IF Transient(sv'.last) /\ sv.restarts < 5
             THEN /\ sv'.restarts = sv.restarts + 1
                  /\ sv'.pc \in {"iter", "returned"}
                  /\ sv'.pc = "iter" => sv'.idx = GetFirstEntry(sv.view)
             ELSE /\ sv'.restarts = sv.restarts
                  /\ sv'.pc = "returned" ]_vars
  /\ [][IsPrefix(sv.out, sv'.out)]_vars

\* the snapshot was returned after five restarts and one more error
C17_Witness ==
  /\ sv.pc = "returned" /\ sv.restarts = 5 /\ Transient(sv.last)
  /\ Len(sv.out) >= 2

\* the UNIDs of seq in the order of their first occurrence
RECURSIVE FirstOccurrences(_)
FirstOccurrences(seq) ==
  IF seq = <<>> THEN <<>>
  ELSE LET init == FirstOccurrences(SubSeq(seq, 1, Len(seq) - 1))
           x    == seq[Len(seq)]
       IN IF x \in Range(init) THEN init ELSE Append(init, x)

\* C18: a snapshot never holds a UNID twice, and its UNIDs are in the order
\* in which the iteration first saw them
C18_SnapshotUnidsUnique ==
  /\ \A i, j \in 1..Len(sv.out) : sv.out[i][1] = sv.out[j][1] => i = j
  /\ [i \in 1..Len(sv.out) |-> sv.out[i][1]] = FirstOccurrences(sv.visited)

\* a UNID was met again after a restart, and twice in one pass over the view
C18_Witness ==
  /\ sv.pc = "returned" /\ sv.restarts >= 1
  /\ Len(sv.visited) > Len(sv.out) + 1
  /\ Len(sv.out) = 2

(* ------------------------------------------------------------------ *)
(* Properties of the orchestrator (specification SpecMain)            *)
(* ------------------------------------------------------------------ *)
\* C19: when a view of a plan raises after the plan's source was opened, the
\* plan is aborted (none of its later views is processed) and every remaining
\* plan is still processed: when main ends, every plan whose source opens was
\* opened, and every view of a plan none of whose views raises was processed
C19_PlanErrorContinues ==
  orch.pc \in {"done", "raised"} =>
    \A i \in 1..Len(orch.plans) :
      LET plan == orch.plans[i]
      IN /\ plan.opens => i \in orch.opened
         /\ \A v \in 1..Len(plan.views) :
              IF \E u \in 1..v : plan.views[u] # "ok"
                THEN <<i, v>> \notin orch.views_done
                ELSE plan.opens => <<i, v>> \in orch.views_done

(* ------------------------------------------------------------------ *)
(* Error isolation in a batch (specification Spec)                    *)
(* ------------------------------------------------------------------ *)
\* The except clause of the batch loop: a raising upsert adds one to the
\* errors counter and the loop goes on with the next entry of the batch
FailedUpsertCounted ==
  [][ (pc = "doc" /\ pos' = pos + 1 /\ EntryRaises(con, snapshot[pos + 1]))
        => /\ con'.stats.errors = con.stats.errors + 1
           /\ pc' = "doc" ]_vars

\* C20: when the upsert of a document raises inside a batch, the error is
\* isolated: no committed state of the sink holds a row that the failed
\* attempt wrote (the counter and the continuation of the batch are
\* FailedUpsertCounted)
C20_FailedUpsertIsolated ==
  \A x \in hist.failed_rows : x[2] \notin con.committed[x[1]]

(* ------------------------------------------------------------------ *)
(* ETL run records (specification SpecMainRun)                        *)
(* ------------------------------------------------------------------ *)
\* the counters of a plan when its finally clause runs: those of its views up
\* to and including the first one that raises
RECURSIVE PlanStats(_, _)
PlanStats(stats, views) ==
  IF views = <<>> THEN stats
  ELSE IF Head(views) = "ok"
         THEN PlanStats(ViewStats(stats, "ok"), Tail(views))
         ELSE ViewStats(stats, Head(views))

\* the committed etl_runs table holds a record of plan i
RunStarted(i) == \E r \in orch.etl_committed : r.source_id = i

\* the committed record of plan i has ended_at and the counters of the plan
RunFinalized(i) ==
  \E r \in orch.etl_committed :
    /\ r.source_id = i
    /\ r.ended_at # Null
    /\ r.stats = PlanStats(ZeroStats, orch.plans[i].views)

C22_SixErrorsHalvePageSize ==
  graph.streak = 6 =>
    /\ graph.limiter.page_size =
         Max(MIN_PAGE_SIZE, graph.first.page_size \div 2)
    /\ graph.limiter.consec_service_errors = 0
    /\ graph.limiter.page_sleep = Min(graph.prev.page_sleep + 50, 300)
    /\ graph.prev.page_size = graph.first.page_size

\* a fresh limiter with PAGE_SIZE 100 after six errors: 50, 1.35 s, counter 0
C22_Witness ==
  /\ graph.streak = 6
  /\ graph.first = AdaptiveLimiter(100)
  /\ graph.limiter.page_size = 50
  /\ graph.limiter.page_sleep = 135
  /\ graph.limiter.consec_service_errors = 0

\* C23: in every reachable state of the limiter, for every configured
\* PAGE_SIZE, page_size is at least MIN_PAGE_SIZE (25)
C23_PageSizeAtLeastMin ==
  graph.limiter.page_size >= MIN_PAGE_SIZE

(* ------------------------------------------------------------------ *)
(* Properties of with_backoff (specification SpecBackoff)             *)
(* ------------------------------------------------------------------ *)
\* the status of the last response of the running request
LastStatus == graph.seen[Len(graph.seen)]

\* C24: with_backoff sends at most 8 attempts for one logical request; every
\* response before the last one was a 429/503/504; it returns the first
\* response with status 200/201/204; on any other status it raises at once
\* with the response body and leaves the limiter as it was; it raises after
\* the 8th throttled response
C24_BackoffAtMostEight ==
  /\ Len(graph.seen) <= MAX_ATTEMPTS
  /\ \A k \in 1..(Len(graph.seen) - 1) : graph.seen[k] \in {429, 503, 504}
  /\ graph.pc = "request" =>
       /\ Len(graph.seen) < MAX_ATTEMPTS
       /\ \A k \in 1..Len(graph.seen) : graph.seen[k] \in {429, 503, 504}
  /\ graph.pc = "returned" =>
       /\ LastStatus \in {200, 201, 204}
       /\ graph.result.kind = "response"
       /\ graph.result.status = LastStatus
       /\ graph.result.body = graph.last.body
  /\ graph.pc = "raised" =>
       \/ /\ LastStatus \notin {200, 201, 204, 429, 503, 504}
          /\ graph.result.kind = "http"
          /\ graph.result.status = LastStatus
          /\ graph.result.body = graph.last.body
          /\ graph.limiter = graph.before
       \/ /\ LastStatus \in {429, 503, 504}
          /\ Len(graph.seen) = MAX_ATTEMPTS
          /\ graph.result.kind = "exceeded"

\* eight throttled responses in the second request, after a first request
\* that was refused with a 404
C24_Witness ==
  /\ graph.pc = "raised"
  /\ graph.requests = 2
  /\ graph.result.kind = "exceeded"
  /\ Len(graph.seen) = MAX_ATTEMPTS
  /\ graph.limiter.page_size = 50

(* ------------------------------------------------------------------ *)
(* Properties of batch_get_managers (specification SpecManagers)      *)
(* ------------------------------------------------------------------ *)
\* the input user ids
InputIds == {graph.user_ids[i] : i \in 1..Len(graph.user_ids)}

\* C25 as stated: when batch_get_managers returns, manager_map holds an entry
\* (a manager id or null) for every input user id, whatever batch responses
\* the directory returned
C25_ManagerMapComplete ==
  graph.pc = "returned" =>
    \A u \in InputIds : graph.manager_map[u] # Unset

\* C25 amended: when batch_get_managers returns, manager_map holds an entry
\* (a manager id or null) for every input user id except those whose last
\* sub-request got no sub-response in the batch response
C25_ManagerMapCompleteIfAnswered ==
  graph.pc = "returned" =>
    \A u \in InputIds :
      \/ graph.manager_map[u] # Unset
      \/ u \in graph.unanswered

\* three users: one resolved, one without manager, one null after a failure
C25_Witness ==
  /\ graph.pc = "returned"
  /\ graph.unanswered = {}
  /\ Len(graph.user_ids) = 3
  /\ graph.manager_map["u1"] = ManagerOf("u1")
  /\ graph.manager_map["u2"] = NullS /\ graph.last["u2"] = "404"
  /\ graph.manager_map["u3"] = NullS /\ graph.last["u3"] = "500"

\* C26: every user id is sent in at most 8 sub-requests; a throttled
\* sub-response re-queues the id with attempts_left one lower and the 8th
\* records null without re-queueing; every batch carries between 1 and
\* BatchLimit sub-requests; the queue empties after finitely many batches
\* and the function returns, unless the POST of a batch raises
C26_BoundedRequeue ==
  /\ [](/\ \A u \in UserIds : graph.sent[u] <= MAX_ATTEMPTS
        /\ \A k \in 1..Len(graph.queue) :
             /\ graph.queue[k][2] = MAX_ATTEMPTS - graph.sent[graph.queue[k][1]]
             /\ graph.queue[k][2] >= 1
             /\ graph.sent[graph.queue[k][1]] > 0
                  => graph.last[graph.queue[k][1]] = "429"
        /\ \A u \in UserIds :
             (graph.sent[u] = MAX_ATTEMPTS /\ graph.last[u] = "429")
               => /\ graph.manager_map[u] = NullS
                  /\ \A k \in 1..Len(graph.queue) : graph.queue[k][1] # u
        /\ graph.chunk_len <= BatchLimit
        /\ (\E u \in UserIds : graph.sent[u] > 0) => graph.chunk_len >= 1)
  /\ <>(\/ graph.pc = "returned" /\ graph.queue = <<>>
        \/ graph.pc = "raised")

\* a user throttled eight times got null and the function returned
C26_Witness ==
  /\ graph.pc = "returned"
  /\ graph.sent["u1"] = MAX_ATTEMPTS
  /\ graph.last["u1"] = "429"
  /\ graph.manager_map["u1"] = NullS
  /\ graph.sent["u2"] = 3
  /\ graph.manager_map["u2"] = ManagerOf("u2")

(* ------------------------------------------------------------------ *)
(* Properties of build_hierarchy (specification SpecHierarchy)        *)
(* ------------------------------------------------------------------ *)
\* how many times user u appears in the tree under node n
RECURSIVE Appearances(_, _, _, _)
Appearances(reports, n, u, fuel) ==
  (IF n = u THEN 1 ELSE 0)
  + (IF fuel = 0 THEN 0
     ELSE LET kids == reports[n]
              Sum[k \in 0..Len(kids)] ==
                IF k = 0 THEN 0
                ELSE Sum[k - 1] + Appearances(reports, kids[k], u, fuel - 1)
          IN Sum[Len(kids)])

\* how many times user u appears in the forest written to org_tree.json
InForest(u) ==
  LET roots == graph.out.roots
      Sum[k \in 0..Len(roots)] ==
        IF k = 0 THEN 0
        ELSE Sum[k - 1]
             + Appearances(graph.out.reports, roots[k], u, Len(graph.user_ids))
  IN Sum[Len(roots)]

LoadedIds == {graph.user_ids[i] : i \in 1..Len(graph.user_ids)}

\* C27: for every user list and manager map, self-references and cycles
\* included, every user appears exactly once in the forest that
\* build_hierarchy returns, and the roots are exactly the users whose
\* managerId is null or not the id of a loaded user
C27_ForestEveryUserOnce ==
  graph.pc = "built" =>
    /\ \A u \in LoadedIds : InForest(u) = 1
    /\ {graph.out.roots[k] : k \in 1..Len(graph.out.roots)}
         = {u \in LoadedIds :
              \/ graph.manager_map[u] \in {NullS, Unset}
              \/ graph.manager_map[u] \notin LoadedIds}

\* C28: in the user list emitted after build_hierarchy, every user's
\* managerId is null or the id of a user of the same list
C28_ManagerIdInSnapshot ==
  graph.pc = "built" =>
    \A i \in 1..Len(graph.out.users) :
      \/ graph.out.users[i].managerId = NullS
      \/ graph.out.users[i].managerId \in LoadedIds

(* ------------------------------------------------------------------ *)
(* Properties of sanitize_folder_name (specification SpecSanitize)    *)
(* ------------------------------------------------------------------ *)
\* C30: for every input string sanitize_folder_name returns a non-empty name
\* of at most max_len characters with no forbidden filesystem character and
\* no whitespace; an empty or blank input gives "Unnamed"
C30_SanitizedNameValid ==
  fn.pc = "done" =>
    /\ fn.out # <<>>
    /\ Len(fn.out) <= fn.max_len
    /\ \A i \in 1..Len(fn.out) :
         fn.out[i] \notin ForbiddenChars \cup Whitespace
    /\ (\A i \in 1..Len(fn.name) : fn.name[i] \in Whitespace)
         => fn.out = Unnamed

(* ------------------------------------------------------------------ *)
(* Properties of select_views_for_plan (specification SpecSelect)     *)
(* ------------------------------------------------------------------ *)
\* the views that match canonical name k and are not excluded by prefix
Candidates(k) ==
  LET needles == NeedlesFor(CanonTargets[k], fn.overrides[k])
  IN { i \in 1..Len(fn.all_views) :
         /\ ~is_excluded(fn.all_views[i])
         /\ \E j \in 1..Len(needles) :
              \E form \in { fn.all_views[i], leaf(fn.all_views[i]) } :
                \/ Contains(needles[j], LowerStr(form))
                \/ Contains(needles[j], normalize(form)) }

EnglishCandidates(k) ==
  { i \in Candidates(k) : Contains(EnglishMark, LowerStr(fn.all_views[i])) }

Least(S) == CHOOSE i \in S : \A j \in S : i <= j

\* C29: for each canonical name the chosen view is, among the views not
\* excluded by prefix that contain a needle in their raw or normalized full
\* name or leaf, the first in enumeration order that contains
\* "english / anglais" if there is one, else the first in enumeration order;
\* an excluded view is never chosen; a name with no matching view selects
\* nothing
C29_FirstEnglishElseFirst ==
  fn.pc = "done" =>
    /\ \A k \in 1..Len(CanonTargets) :
         LET c == fn.out.chosen[k]
         IN /\ c = IF Candidates(k) = {} THEN 0
                   ELSE IF EnglishCandidates(k) # {}
                     THEN Least(EnglishCandidates(k))
                     ELSE Least(Candidates(k))
            /\ c # 0 => ~is_excluded(fn.all_views[c])
    /\ fn.out.targets = SelectSeq(fn.out.chosen, LAMBDA v : v # 0)

\* a plain match first, an excluded view second, an English view third: the
\* third is chosen for People, nothing for the other names
C29_Witness ==
  /\ fn.pc = "done"
  /\ Len(fn.all_views) = 3
  /\ ~Contains(EnglishMark, LowerStr(fn.all_views[1]))
  /\ is_excluded(fn.all_views[2])
  /\ fn.overrides[1] = <<>>
  /\ fn.out.chosen = <<3, 0, 0>>
  /\ Candidates(1) = {1, 3}

(* ------------------------------------------------------------------ *)
(* Properties of document_views over passes (specification Spec)      *)
(* ------------------------------------------------------------------ *)
\* C31: after any sequence of passes, document_views holds at most one
\* committed row for each (unid, view_name, category_path), the null
\* category_path included
C31_OneRowPerMembership ==
  \A r1, r2 \in con.committed.document_views :
    (/\ r1.unid = r2.unid
     /\ r1.view_name = r2.view_name
     /\ r1.category_path = r2.category_path) => r1 = r2

(* ------------------------------------------------------------------ *)
(* Properties of the $FILE linker (specification SpecUpsert)          *)
(* ------------------------------------------------------------------ *)
\* the Attachments rows of document unid with the filename
AttachmentsNamed(db, unid, filename) ==
  {a \in db.attachments : a.unid = unid /\ a.filename = filename}

\* the DocItemValue at val_order of $FILE points to a string-kind ItemValue of
\* the filename whose attachment_id is the id of the Attachments row a
FileLinked(db, unid, val_order, filename, a) ==
  \E r \in Links(db, unid, "$FILE") :
    /\ r.val_order = val_order
    /\ \E iv \in db.item_values :
         /\ iv.id = r.item_value_id
         /\ iv.val_kind = "string"
         /\ iv.v_string = filename
         /\ iv.attachment_id = a.id

\* $FILE is allowed by the filter before the last upsert
FileAllowedBefore ==
  \/ ~ItemKnown(Before, "$FILE")
  \/ ItemRow(Before, "$FILE").notes_filter = 1

\* the last upsert was of a document whose $FILE item k names, as its value
\* i, the file of an extracted attachment
FileWithAttachment(k, i) ==
  /\ LastDoc.items[k].name = "$FILE"
  /\ AttachmentsNamed(con.db, LastUnid, StrOf(LastDoc.items[k].vals[i])) # {}

\* C32: after upserting a document that has a $FILE item and an extracted
\* attachment with the same filename, whenever $FILE is allowed by the filter
\* (notes_filter = 1, or $FILE unknown to the catalog before the upsert), the
\* DocItemValue of each $FILE filename points to a string-kind ItemValue whose
\* attachment_id is the id of the matching Attachments row
C32_FileValueLinksAttachment ==
  (hist.log # <<>> /\ FileAllowedBefore) =>
    \A k \in 1..Len(LastDoc.items) : \A i \in 1..Len(LastDoc.items[k].vals) :
      FileWithAttachment(k, i) =>
        \A a \in AttachmentsNamed(con.db, LastUnid,
                                  StrOf(LastDoc.items[k].vals[i])) :
          FileLinked(con.db, LastUnid, i - 1,
                     StrOf(LastDoc.items[k].vals[i]), a)

(* ------------------------------------------------------------------ *)
(* Properties of the threaded extractor (specification SpecPool)      *)
(* ------------------------------------------------------------------ *)
\* the sessions whose handles thread t has called
SessionsOf(t) == {h.session : h \in {x \in pool.handles : t \in x.threads}}

\* C33: when views are processed in parallel, each worker uses its own
\* independent session handle (no two worker threads call handles of the same
\* session), and no session, view, entry or document handle is used by more
\* than one thread
C33_HandlesThreadConfined ==
  pool.pc # "idle" =>
    /\ \A t1, t2 \in PoolThreads :
         t1 # t2 => SessionsOf(t1) \cap SessionsOf(t2) = {}
    /\ \A h \in pool.handles :
         h.kind \in {"session", "view", "entry", "doc"} =>
           Cardinality(h.threads) <= 1

(* ------------------------------------------------------------------ *)
(* Properties of the checkpoint (specification Spec)                  *)
(* ------------------------------------------------------------------ *)
\* C34: for every committed checkpoint with next_index = k, every UNID at
\* positions 0 to k-1 of the snapshot it was written for (its signature is
\* the sequence of the snapshot's UNIDs) has a committed document row
C34_CheckpointCoversUpserted ==
  \A ck \in con.committed.etl_checkpoints :
    \A i \in 1..ck.next_index :
      \E d \in con.committed.documents : d.unid = ck.snapshot_sig[i]

\* the checkpoint row after a step that commits a checkpoint
CommittedCkpt(c) == CHOOSE r \in c.committed.etl_checkpoints : TRUE

\* C35: at every checkpoint commit of process_view_into_db,
\* 0 <= next_index <= snapshot length, next_index is a multiple of the batch
\* size or equals the snapshot length, last_unid is the UNID at snapshot
\* position next_index - 1, and next_index never decreases within a run (it is
\* above the index the run started at and above the checkpoint it replaces
\* when that one is of the same snapshot)
C35_CheckpointWellFormed ==
  [][con'.committed.etl_checkpoints # con.committed.etl_checkpoints =>
       LET ck  == CommittedCkpt(con')
           old == load_checkpoint(con.committed)
       IN /\ 0 <= ck.next_index /\ ck.next_index <= Len(snapshot)
          /\ ck.next_index % BatchSize = 0 \/ ck.next_index = Len(snapshot)
          /\ ck.next_index >= 1
          /\ ck.last_unid = snapshot[ck.next_index][1]
          /\ ck.snapshot_sig = sig_for_snapshot(snapshot)
          /\ ck.next_index > hist.start
          /\ (old # NoCkpt /\ old.snapshot_sig = ck.snapshot_sig)
               => ck.next_index > old.next_index]_vars

\* a run resumed from a checkpoint has committed the checkpoint of the last,
\* shorter batch of a snapshot longer than one batch
C35_Witness ==
  /\ pc = "loop"
  /\ hist.start > 0
  /\ Len(snapshot) > BatchSize
  /\ \E ck \in con.committed.etl_checkpoints :
       /\ ck.snapshot_sig = snapshot_sig
       /\ ck.next_index = Len(snapshot)
       /\ ck.next_index > hist.start
       /\ ck.last_unid = snapshot[Len(snapshot)][1]

\* the last call took the heavy-throttle action: long nap, page_size halved,
\* page_sleep raised by 0.5 s, counter reset
HeavyThrottle == graph.limiter.nap > 0

\* C36 as stated: the heavy-throttle action is taken only at the end of six
\* note_service_error calls in a row, with no note_success between them
C36_HeavyOnlyAfterSixInARow ==
  HeavyThrottle => graph.row = MAX_CONSEC_SERVICE_ERRORS

\* C36, amended: the heavy-throttle action is taken only by a
\* note_service_error call that finds the counter at five, after at least six
\* service errors since the previous heavy-throttle action; successes noted
\* in between lower the counter by one each and do not end the streak
C36_HeavyOnlyAtCounterSix ==
  HeavyThrottle =>
    /\ graph.prev.consec_service_errors = MAX_CONSEC_SERVICE_ERRORS - 1
    /\ graph.errs = MAX_CONSEC_SERVICE_ERRORS
    /\ graph.row >= 1
    /\ graph.limiter.consec_service_errors = 0
    /\ graph.limiter.page_size = Max(MIN_PAGE_SIZE, graph.prev.page_size \div 2)
    /\ graph.limiter.page_sleep >= graph.prev.page_sleep

\* the heavy-throttle action two errors after a success
C36_Witness ==
  /\ HeavyThrottle
  /\ graph.row = 2
  /\ graph.errs = MAX_CONSEC_SERVICE_ERRORS

\* C37: over any sequence of note_success and note_service_error calls,
\* page_sleep never decreases (it is at least what the last call found) and
\* never exceeds 3.0 s
C37_PageSleepMonotoneCapped ==
  /\ graph.limiter.page_sleep >= graph.prev.page_sleep
  /\ graph.limiter.page_sleep <= 300

(* ------------------------------------------------------------------ *)
(* Properties of fetch_all_users (specification SpecFetch)            *)
(* ------------------------------------------------------------------ *)
\* C38: every users-page request issued by fetch_all_users carries $top equal
\* to the limiter's page_size at the time the request is sent
C38_TopFollowsPageSize ==
  (graph.pc # "idle" /\ graph.sent # NotSent) =>
    graph.sent.top = graph.sent.page_size

(* ------------------------------------------------------------------ *)
(* Properties of the suggested override (specification SpecPin)       *)
(* ------------------------------------------------------------------ *)
\* C39: if the regex_override suggested for an upstream view name N is stored
\* for a canonical name, the next selection for that canonical name chooses
\* the view named N
C39_SuggestedOverridePinsView ==
  fn.pc = "done" =>
    /\ fn.out.chosen[1] # 0
    /\ fn.all_views[fn.out.chosen[1]] = fn.name

(* ------------------------------------------------------------------ *)
(* Properties of manager_checkpoint.json (specification SpecExport)   *)
(* ------------------------------------------------------------------ *)
\* the ids the running export has asked the directory about
Requested == {u \in UserIds : graph.sent[u] > 0}

\* C40: manager_checkpoint.json records only definitive answers: an id is
\* saved with a manager id after a 200 response or with null after a 404/204
\* response (so an id whose lookup was abandoned after throttling or failed
\* with another status is not saved and is requested again by the next run),
\* and ids already in the checkpoint are not requested again
C40_CheckpointOnlyDefinitive ==
  graph.pc # "idle" =>
    /\ \A u \in UserIds :
         graph.file[u] # Unset =>
           \/ graph.last[u] = "200" /\ graph.file[u] = ManagerOf(u)
           \/ graph.last[u] = "404" /\ graph.file[u] = NullS
    /\ \A u \in Requested : graph.existing[u] = Unset

====
